---- MODULE Spec2Model ----
(***************************************************************************)
(* A model of tev's backup mount: the assembly of the virtual filesystem   *)
(* from the depot manifests (BackupFs::prepare), the chunk router, the     *)
(* ChunkStore reader and the FUSE callbacks of BackupFs.                   *)
(*                                                                         *)
(* Representation.  A byte is a small natural number.  A file name is a    *)
(* sequence of characters (one-character strings); a path is the sequence  *)
(* of its components, each a non-empty sequence of characters, which is    *)
(* what Rust's Path compares, orders and hashes by.  A SHA-1 digest is the  *)
(* record [sha1 |-> d] of the byte sequence d it is the digest of (SHA-1   *)
(* taken as collision free).  TLC's integers have 32 bits, so the width of *)
(* a u64 is represented by U64 = 2^30, far above every size of the model.  *)
(***************************************************************************)
EXTENDS Integers, Sequences, FiniteSets, TLC

VARIABLES
    backup,        \* the files on disk: manifests and chunkstores of the SKU
    phase,         \* "unmounted" | "mounted" | "failed" | "panicked"
    inodes,        \* BackupFs.inodes
    dir_map,       \* BackupFs.dir_map
    path_map,      \* the path index of prepare (a local of prepare)
    chunks,        \* BackupFs.chunks: digest -> index of the ChunkStore
    chunkstores,   \* the ChunkStores behind the Rc<RwLock<..>> of the router
    blocks,        \* BackupFs.blocks
    open_files,    \* BackupFs.open_files
    open_dirs,     \* BackupFs.open_dirs
    next_file_fh,  \* BackupFs.next_file_fh
    next_dir_fh,   \* BackupFs.next_dir_fh
    reply,         \* what the last callback sent to its reply object
    live_files,    \* history: <<fh, ino>> returned by open, not yet released
    live_dirs,     \* history: <<fh, ino>> returned by opendir, not yet released
    collided,      \* history: an open reused a handle number that was live
                   \* (from then on live_files and live_dirs are not kept)
    verifier,      \* verify_backup: where it is, and its locals
    tasks,         \* the verify_chunkstore tasks of the depot being verified
    output,        \* the lines printed to standard output
    manifest,      \* the Manifest in memory that Manifest::write is given
    stream,        \* the bytes of the manifest file (the writer, the reader)
    parsed,        \* what Manifest::read returned
    locks,         \* the RwLock of each ChunkStore: the reads that hold it
    readers        \* the read callbacks in flight, each at a step of its loop

vars == <<backup, phase, inodes, dir_map, path_map, chunks, chunkstores, blocks,
          open_files, open_dirs, next_file_fh, next_dir_fh, reply,
          live_files, live_dirs, collided, verifier, tasks, output,
          manifest, stream, parsed, locks, readers>>

fsVars == <<inodes, dir_map, path_map, chunks, blocks>>
handleVars == <<open_files, open_dirs, next_file_fh, next_dir_fh,
                live_files, live_dirs, collided>>
verifyVars == <<verifier, tasks, output>>
codecVars == <<manifest, stream, parsed>>
lockVars == <<locks, readers>>

----------------------------------------------------------------------------
(* Generic helpers.                                                        *)

Range(s) == {s[i] : i \in DOMAIN s}

Min(a, b) == IF a < b THEN a ELSE b

\* s without its first n elements (Rust's &s[n..], for n <= Len(s)).
DropFirst(s, n) == SubSeq(s, n + 1, Len(s))

\* The first n elements of s (Rust's &s[..n]).
TakeFirst(s, n) == SubSeq(s, 1, n)

\* A HashMap as a function; insert overwrites.
EmptyMap == <<>>

MapInsert(m, k, v) == [x \in DOMAIN m \cup {k} |-> IF x = k THEN v ELSE m[x]]

MapRemove(m, k) == [x \in DOMAIN m \ {k} |-> m[x]]

----------------------------------------------------------------------------
(* Paths.                                                                  *)

\* The byte of a character, which orders the components of a path.
CharCode(c) ==
    CASE c = "/" -> 47
      [] c = "\\" -> 92
      [] c = "a" -> 97
      [] c = "b" -> 98
      [] c = "c" -> 99

\* str::split(sep): the pieces between the separators, empty ones included.
RECURSIVE Split(_, _)
Split(s, sep) ==
    IF \A i \in DOMAIN s : s[i] # sep THEN <<s>>
    ELSE LET i == CHOOSE j \in DOMAIN s :
                      s[j] = sep /\ \A k \in 1..(j - 1) : s[k] # sep
         IN  <<SubSeq(s, 1, i - 1)>> \o Split(SubSeq(s, i + 1, Len(s)), sep)

\* FromIterator<&str> for PathBuf: pushing an empty piece adds no component.
RECURSIVE Collect(_)
Collect(pieces) ==
    IF pieces = <<>> THEN <<>>
    ELSE IF Head(pieces) = <<>> THEN Collect(Tail(pieces))
    ELSE <<Head(pieces)>> \o Collect(Tail(pieces))

\* The conversion of a file name into a platform path.
FilenameToPath(filename) ==
    IF \E i \in DOMAIN filename : filename[i] = "/"
    THEN Collect(Split(filename, "/"))
    ELSE Collect(Split(filename, "\\"))

\* Path::parent of a path with at least one component.
Parent(path) == SubSeq(path, 1, Len(path) - 1)

\* Path::file_name of a path with at least one component.
FileName(path) == path[Len(path)]

\* Ord for byte strings and for paths (component by component).
RECURSIVE BytesLess(_, _)
BytesLess(a, b) ==
    IF b = <<>> THEN FALSE
    ELSE IF a = <<>> THEN TRUE
    ELSE IF CharCode(Head(a)) # CharCode(Head(b))
         THEN CharCode(Head(a)) < CharCode(Head(b))
    ELSE BytesLess(Tail(a), Tail(b))

RECURSIVE PathLess(_, _)
PathLess(p, q) ==
    IF q = <<>> THEN FALSE
    ELSE IF p = <<>> THEN TRUE
    ELSE IF Head(p) # Head(q) THEN BytesLess(Head(p), Head(q))
    ELSE PathLess(Tail(p), Tail(q))

----------------------------------------------------------------------------
(* Nodes of the virtual filesystem.                                        *)

ROOT_INODE == 1

BLKSIZE == 512

DIR_FLAG == 64

\* The file mapping a synthetic node does not have.
NoMapping == [flags |-> 0, size |-> 0, chunks |-> <<>>]

RealNode(metadata, path, file_mapping) ==
    [real |-> TRUE, metadata |-> metadata, path |-> path, name |-> <<>>,
     file_mapping |-> file_mapping]

SyntheticNode(metadata, name) ==
    [real |-> FALSE, metadata |-> metadata, path |-> <<>>, name |-> name,
     file_mapping |-> NoMapping]

\* Node::file_mapping is Some exactly for a real node.
HasMapping(node) == node.real

\* Node::size().0: the size in bytes.
NodeSize(node) == IF HasMapping(node) THEN node.file_mapping.size ELSE 0

\* Node::size().1: the size in blocks.
NodeBlocks(node) == (NodeSize(node) + (BLKSIZE - 1)) \div BLKSIZE

\* steam_to_filetype applied to Node::file_mapping.
NodeKind(node) ==
    IF HasMapping(node)
    THEN IF (node.file_mapping.flags \div DIR_FLAG) % 2 # 0
         THEN "Directory" ELSE "RegularFile"
    ELSE "Directory"

\* A name that is the first component of a real node's path.
NodeNameFirst(node) ==
    IF node.real
    THEN IF node.path = <<>> THEN <<>> ELSE node.path[1]
    ELSE node.name

\* Node::name: the last component of a real node's path (the whole path when
\* it has none), the recorded name of a synthetic node.
NodeName(node) ==
    IF node.real
    THEN IF node.path = <<>> THEN <<>> ELSE FileName(node.path)
    ELSE node.name

\* Node::attr.
NodeAttr(node, ino) ==
    [ino |-> ino, size |-> NodeSize(node), blocks |-> NodeBlocks(node),
     crtime |-> node.metadata.creation_time, kind |-> NodeKind(node)]

ROOT_ATTR ==
    [ino |-> ROOT_INODE, size |-> 0, blocks |-> 0, crtime |-> 0,
     kind |-> "Directory"]

\* BackupFs::get_node on a node table.
GetNodeIn(table, ino) ==
    IF ino >= 2 /\ ino - 2 < Len(table)
    THEN [some |-> TRUE, node |-> table[ino - 1]]
    ELSE [some |-> FALSE, node |-> SyntheticNode([depot_id |-> 0,
              creation_time |-> 0, filenames_encrypted |-> FALSE], <<>>)]

----------------------------------------------------------------------------
(* ChunkStore::open.                                                       *)

\* The digest -> position map: a later descriptor of the same digest wins.
RECURSIVE ChunkMapOf(_, _)
ChunkMapOf(cs, n) ==
    IF n = 0 THEN EmptyMap
    ELSE MapInsert(ChunkMapOf(cs, n - 1), cs[n].sha, n)

\* f: the pair of files <depot>_depotcache_<index>.csm / .csd as found on disk.
ChunkStoreOpen(f) ==
    IF ~f.csm_ok THEN [ok |-> FALSE]
    ELSE IF f.csm.depot # f.depot THEN [ok |-> FALSE]
    ELSE IF f.csm.is_encrypted THEN [ok |-> FALSE]
    ELSE IF ~f.csd_ok THEN [ok |-> FALSE]
    ELSE [ok |-> TRUE,
          store |-> [csm |-> f.csm, csd |-> f.csd, csd_len |-> Len(f.csd),
                     chunk_map |-> ChunkMapOf(f.csm.chunks, Len(f.csm.chunks)),
                     position |-> 0, cursor |-> 0, buffer |-> <<>>]]

----------------------------------------------------------------------------
(* ChunkStore::chunk_data.                                                 *)

Sha1(data) == [sha1 |-> data]

PK == <<80, 75>>

VZ == <<86, 90>>

\* A zip archive whose only entry holds data: the "PK" signature, then the
\* entry's bytes.
Zip(data) == PK \o data

\* A decompression that checks the length and not the digest.
DecompressUnverified(compressed, uncompressed_length, sha) ==
    IF Len(compressed) < 2 THEN "Panic"
    ELSE IF SubSeq(compressed, 1, 2) = VZ THEN "Unsupported"
    ELSE IF SubSeq(compressed, 1, 2) # PK THEN "Unknown"
    ELSE IF Len(compressed) - 2 # uncompressed_length THEN "WrongLength"
    ELSE "Valid"

\* decompress_and_verify: the payload is told by its first two bytes.
DecompressAndVerify(compressed, uncompressed_length, sha) ==
    IF Len(compressed) < 2 THEN "Panic"
    ELSE IF TakeFirst(compressed, 2) = VZ THEN "Unsupported"
    ELSE IF TakeFirst(compressed, 2) # PK THEN "Unknown"
    ELSE LET data == DropFirst(compressed, 2)
         IN  IF Len(data) # uncompressed_length THEN "WrongLength"
             ELSE IF Sha1(data) # sha THEN "WrongDigest"
             ELSE "Valid"

\* chunk_data on the store cs: the outcome and the store afterwards.
\* position is the store's idea of the read cursor, cursor the cursor itself.
ChunkData(cs, sha) ==
    IF sha \notin DOMAIN cs.chunk_map
    THEN [ok |-> FALSE, err |-> "UnknownChunk", data |-> <<>>, store |-> cs]
    ELSE
    LET chunk  == cs.csm.chunks[cs.chunk_map[sha]]
        sought == IF chunk.offset # cs.position
                  THEN [cs EXCEPT !.cursor = chunk.offset, !.position = chunk.offset]
                  ELSE cs
        last   == sought.cursor + chunk.compressed_length
    IN  IF last > cs.csd_len
        THEN \* read_exact meets the end of the file: position is not advanced.
             [ok |-> FALSE, err |-> "Io", data |-> <<>>,
              store |-> [sought EXCEPT
                            !.cursor = IF @ > cs.csd_len THEN @ ELSE cs.csd_len]]
        ELSE
        LET compressed == SubSeq(cs.csd, sought.cursor + 1, last)
            moved  == [sought EXCEPT !.cursor = last, !.position = last,
                                     !.buffer = <<>>]
            checked == DecompressAndVerify(compressed, chunk.uncompressed_length, sha)
        IN  IF checked = "Valid"
            THEN [ok |-> TRUE, err |-> "", data |-> DropFirst(compressed, 2),
                  store |-> [moved EXCEPT !.buffer = compressed]]
            ELSE [ok |-> FALSE, err |-> checked, data |-> <<>>, store |-> moved]

----------------------------------------------------------------------------
(* BackupFs::prepare.                                                      *)

\* The manifests read into memory: an error when one cannot be read or
\* belongs to another depot.
ManifestsOk(b) ==
    \A i \in DOMAIN b.manifests :
        /\ b.manifests[i].read_ok
        /\ b.manifests[i].metadata.depot_id = b.manifests[i].depot

ChunkstoresOk(b) ==
    \A i \in DOMAIN b.stores : ChunkStoreOpen(b.stores[i]).ok

OpenedStores(b) == [i \in DOMAIN b.stores |-> ChunkStoreOpen(b.stores[i]).store]

\* A router that keeps the first store that lists a digest.
RECURSIVE RouteStoreOnce(_, _, _, _)
RouteStoreOnce(router, cs, n, store) ==
    IF n = 0 THEN router
    ELSE LET before == RouteStoreOnce(router, cs, n - 1, store)
         IN  IF cs[n].sha \in DOMAIN before THEN before
             ELSE MapInsert(before, cs[n].sha, store)

\* The chunk router: every digest of every store's CSM, in store order and
\* CSM order, inserted with the store that lists it.
RECURSIVE RouteStore(_, _, _, _)
RouteStore(router, cs, n, store) ==
    IF n = 0 THEN router
    ELSE MapInsert(RouteStore(router, cs, n - 1, store), cs[n].sha, store)

RECURSIVE BuildRouter(_, _)
BuildRouter(stores, n) ==
    IF n = 0 THEN EmptyMap
    ELSE RouteStore(BuildRouter(stores, n - 1), stores[n].csm.chunks,
                    Len(stores[n].csm.chunks), n)

\* One real node per file mapping, manifest after manifest.
NodesOfManifest(m) ==
    [i \in DOMAIN m.mappings |->
        RealNode(m.metadata, FilenameToPath(m.mappings[i].filename),
                 [flags |-> m.mappings[i].flags, size |-> m.mappings[i].size,
                  chunks |-> m.mappings[i].chunks])]

RECURSIVE AllRealNodes(_, _)
AllRealNodes(ms, n) ==
    IF n = 0 THEN <<>>
    ELSE AllRealNodes(ms, n - 1) \o NodesOfManifest(ms[n])

\* sort_by_key on the path: a stable sort.
RECURSIVE InsertSorted(_, _)
InsertSorted(sorted, node) ==
    IF sorted = <<>> THEN <<node>>
    ELSE IF PathLess(node.path, sorted[Len(sorted)].path)
         THEN InsertSorted(SubSeq(sorted, 1, Len(sorted) - 1), node)
                  \o <<sorted[Len(sorted)]>>
    ELSE Append(sorted, node)

RECURSIVE SortByPath(_, _)
SortByPath(nodes, n) ==
    IF n = 0 THEN <<>>
    ELSE InsertSorted(SortByPath(nodes, n - 1), nodes[n])

\* No dedup: every node stays.
KeepAll(nodes, n) == SubSeq(nodes, 1, n)

\* A dedup that keeps the last of consecutive equal paths.
RECURSIVE DedupKeepLast(_, _)
DedupKeepLast(nodes, n) ==
    IF n = 0 THEN <<>>
    ELSE LET prev == DedupKeepLast(nodes, n - 1)
         IN  IF prev # <<>> /\ prev[Len(prev)].path = nodes[n].path
             THEN [prev EXCEPT ![Len(prev)] = nodes[n]]
             ELSE Append(prev, nodes[n])

\* dedup_by on the path: of consecutive equal paths the first stays.
RECURSIVE DedupByPath(_, _)
DedupByPath(nodes, n) ==
    IF n = 0 THEN <<>>
    ELSE LET prev == DedupByPath(nodes, n - 1)
         IN  IF prev # <<>> /\ prev[Len(prev)].path = nodes[n].path
             THEN prev
             ELSE Append(prev, nodes[n])

RECURSIVE SumBlocks(_, _)
SumBlocks(nodes, n) ==
    IF n = 0 THEN 0 ELSE SumBlocks(nodes, n - 1) + NodeBlocks(nodes[n])

\* The path index over the real nodes, with the root added.
InitialPathMap(nodes) ==
    MapInsert([p \in {nodes[i].path : i \in DOMAIN nodes} |->
                  1 + CHOOSE i \in DOMAIN nodes : nodes[i].path = p],
              <<>>, ROOT_INODE)

\* A push that starts the child list of parent anew.
DirReplace(dm, parent, child) == [x \in DOMAIN dm \cup {parent} |->
                                    IF x = parent THEN <<child>> ELSE dm[x]]

\* dir_map.entry(parent).or_default().push(child)
DirPush(dm, parent, child) ==
    MapInsert(dm, parent,
              IF parent \in DOMAIN dm THEN Append(dm[parent], child)
              ELSE <<child>>)

\* A walk up the ancestors that adds the synthetic nodes and their edges but
\* does not register them in the path index.
RECURSIVE WalkUpUnindexed(_, _, _, _)
WalkUpUnindexed(st, ino, parent_path, metadata) ==
    IF parent_path \in DOMAIN st.path_map
    THEN [st EXCEPT !.dir_map = DirPush(@, st.path_map[parent_path], ino)]
    ELSE WalkUpUnindexed(
             [inodes |-> Append(st.inodes,
                                SyntheticNode(metadata, parent_path[Len(parent_path)])),
              path_map |-> st.path_map,
              dir_map |-> DirPush(st.dir_map, Len(st.inodes) + 2, ino)],
             Len(st.inodes) + 2, SubSeq(parent_path, 1, Len(parent_path) - 1),
             metadata)

\* A walk up that numbers a new parent after it is pushed to the table.
RECURSIVE WalkUpLate(_, _, _, _)
WalkUpLate(st, ino, parent_path, metadata) ==
    IF parent_path \in DOMAIN st.path_map
    THEN [st EXCEPT !.dir_map = DirPush(@, st.path_map[parent_path], ino)]
    ELSE LET parent_ino == Len(st.inodes) + 3
             name == FileName(parent_path)
         IN  WalkUpLate([inodes |-> Append(st.inodes, SyntheticNode(metadata, name)),
                         path_map |-> MapInsert(st.path_map, parent_path, parent_ino),
                         dir_map |-> DirPush(st.dir_map, parent_ino, ino)],
                        parent_ino, Parent(parent_path), metadata)

\* The inner loop of prepare: from ino walk up the ancestors of the node,
\* adding a synthetic node for each ancestor the path index does not know.
RECURSIVE WalkUp(_, _, _, _)
WalkUp(st, ino, parent_path, metadata) ==
    IF parent_path \in DOMAIN st.path_map
    THEN [st EXCEPT !.dir_map = DirPush(@, st.path_map[parent_path], ino)]
    ELSE LET parent_ino == Len(st.inodes) + 2
             name == FileName(parent_path)
         IN  WalkUp([inodes |-> Append(st.inodes, SyntheticNode(metadata, name)),
                     path_map |-> MapInsert(st.path_map, parent_path, parent_ino),
                     dir_map |-> DirPush(st.dir_map, parent_ino, ino)],
                    parent_ino, Parent(parent_path), metadata)

\* The outer loop of prepare over the real nodes 0 .. n-1.
RECURSIVE BuildDirMap(_, _)
BuildDirMap(st, n) ==
    IF n = 0 THEN st
    ELSE LET before == BuildDirMap(st, n - 1)
             node == before.inodes[n]
         IN  WalkUp(before, n + 1, Parent(node.path), node.metadata)

\* prepare as a whole.  It fails on a manifest or chunkstore error and
\* panics ("not a root by construction") on a node whose path has no parent.
Prepare(b) ==
    IF ~ManifestsOk(b) \/ ~ChunkstoresOk(b) THEN [status |-> "failed"]
    ELSE
    LET stores == OpenedStores(b)
        all    == AllRealNodes(b.manifests, Len(b.manifests))
        sorted == SortByPath(all, Len(all))
        real   == DedupByPath(sorted, Len(sorted))
    IN  IF \E i \in DOMAIN real : real[i].path = <<>>
        THEN [status |-> "panicked"]
        ELSE LET st == BuildDirMap([inodes |-> real,
                                    path_map |-> InitialPathMap(real),
                                    dir_map |-> EmptyMap], Len(real))
             IN  [status |-> "mounted",
                  chunkstores |-> stores,
                  chunks |-> BuildRouter(stores, Len(stores)),
                  blocks |-> SumBlocks(real, Len(real)),
                  inodes |-> st.inodes,
                  path_map |-> st.path_map,
                  dir_map |-> st.dir_map]

----------------------------------------------------------------------------
(* The FUSE callbacks of BackupFs.                                         *)

\* The number of values of a handle counter: 2^64 in the program, here small
\* enough for a run to wrap the counter.
FhSpace == 2

\* The width of an offset: see the head of the module.
U64 == 2^30

\* A cast that keeps the sign: a negative offset stays below every size.
AsU64Signed(offset) == offset

\* `offset as u64` of an i64.
AsU64(offset) == IF offset < 0 THEN U64 + offset ELSE offset

\* a.saturating_sub(b)
SaturatingSub(a, b) == IF a > b THEN a - b ELSE 0

\* u64::wrapping_add(1) of a handle counter.
WrappingNext(fh) == (fh + 1) % FhSpace

GetNode(ino) == GetNodeIn(inodes, ino)

Error(op, errno) == [op |-> op, kind |-> "error", errno |-> errno]

\* lookup: the first child of parent whose name is name.
RECURSIVE LookupIn(_, _, _)
LookupIn(entries, i, name) ==
    IF i > Len(entries) THEN Error("lookup", "ENOENT")
    ELSE IF ~GetNode(entries[i]).some THEN [op |-> "lookup", kind |-> "panic"]
    ELSE IF NodeName(GetNode(entries[i]).node) = name
         THEN [op |-> "lookup", kind |-> "entry",
               attr |-> NodeAttr(GetNode(entries[i]).node, entries[i])]
    ELSE LookupIn(entries, i + 1, name)

LookupReply(parent, name) ==
    IF parent \in DOMAIN dir_map THEN LookupIn(dir_map[parent], 1, name)
    ELSE Error("lookup", "EINVAL")

\* A getattr that does not look at the handle it is given.
GetattrAnyHandle(ino, fh) ==
    IF ino = ROOT_INODE THEN [op |-> "getattr", kind |-> "attr", attr |-> ROOT_ATTR]
    ELSE IF GetNodeIn(inodes, ino).some
         THEN [op |-> "getattr", kind |-> "attr",
               attr |-> NodeAttr(GetNodeIn(inodes, ino).node, ino)]
    ELSE [op |-> "getattr", kind |-> "error", errno |-> "ENOENT"]

\* getattr: fh is <<>> for None and <<h>> for Some(h).
GetattrReply(ino, fh) ==
    IF /\ fh # <<>>
       /\ \/ fh[1] \in DOMAIN open_dirs /\ open_dirs[fh[1]] # ino
          \/ fh[1] \notin DOMAIN open_dirs /\ fh[1] \in DOMAIN open_files
                /\ open_files[fh[1]] # ino
          \/ fh[1] \notin DOMAIN open_dirs /\ fh[1] \notin DOMAIN open_files
    THEN Error("getattr", "EBADF")
    ELSE IF ino = ROOT_INODE THEN [op |-> "getattr", kind |-> "attr", attr |-> ROOT_ATTR]
    ELSE IF GetNode(ino).some
         THEN [op |-> "getattr", kind |-> "attr", attr |-> NodeAttr(GetNode(ino).node, ino)]
    ELSE Error("getattr", "ENOENT")

\* The overlap test of read on one chunk.
ChunkIsRelevant(read_start, read_end, chunk_start, chunk_end) ==
    read_start < chunk_end \/ chunk_start < read_end

\* The copy of a fetched chunk into the buffer; both slices are taken first
\* and panic when they start past the end.
CopyChunk(buf, chunk_data, read_start, chunk_start) ==
    LET dst == SaturatingSub(chunk_start, read_start)
        src == SaturatingSub(read_start, chunk_start)
    IN  IF dst > Len(buf) \/ src > Len(chunk_data) THEN [ok |-> FALSE, buf |-> buf]
        ELSE LET chunk_read == Min(Len(buf) - dst, Len(chunk_data) - src)
             IN  [ok |-> TRUE,
                  buf |-> TakeFirst(buf, dst)
                              \o SubSeq(chunk_data, src + 1, src + chunk_read)
                              \o DropFirst(buf, dst + chunk_read)]

\* The loop of read over the chunks of the file from the i-th on: the reply,
\* the stores afterwards, and the chunks (by position) given to chunk_data.
RECURSIVE ReadChunks(_, _, _, _, _, _, _)
ReadChunks(cs, i, offset, to_read, buf, stores, fetched) ==
    IF i > Len(cs)
    THEN [reply |-> [op |-> "read", kind |-> "data", data |-> buf, fetched |-> fetched],
          stores |-> stores]
    ELSE
    LET chunk == cs[i]
        chunk_end == chunk.offset + chunk.cb_original
    IN  IF ~ChunkIsRelevant(offset, offset + to_read, chunk.offset, chunk_end)
        THEN ReadChunks(cs, i + 1, offset, to_read, buf, stores, fetched)
        ELSE IF chunk.sha \notin DOMAIN chunks
        THEN [reply |-> [op |-> "read", kind |-> "panic", fetched |-> fetched],
              stores |-> stores]
        ELSE
        LET r == ChunkData(stores[chunks[chunk.sha]], chunk.sha)
            after == [stores EXCEPT ![chunks[chunk.sha]] = r.store]
            got == Append(fetched, i)
        IN  IF ~r.ok
            THEN [reply |-> [op |-> "read", kind |-> "error", errno |-> "EIO",
                             fetched |-> got],
                  stores |-> after]
            ELSE LET c == CopyChunk(buf, r.data, offset, chunk.offset)
                 IN  IF ~c.ok
                     THEN [reply |-> [op |-> "read", kind |-> "panic", fetched |-> got],
                           stores |-> after]
                     ELSE ReadChunks(cs, i + 1, offset, to_read, c.buf, after, got)

\* An error reply of read that closes the chunkstores.
ReadErrorClosing(errno) ==
    [reply |-> [op |-> "read", kind |-> "error", errno |-> errno, fetched |-> <<>>],
     stores |-> <<>>]

\* An error reply of read before any chunk is fetched.
ReadError(errno) ==
    [reply |-> [op |-> "read", kind |-> "error", errno |-> errno, fetched |-> <<>>],
     stores |-> chunkstores]

\* A read that takes the requested length whatever is left of the file.
ToReadRequested(size, file_size, offset) == size

\* The number of bytes a read is to return.
ToRead(size, file_size, offset) == Min(size, file_size - offset)

\* read as a whole, for the kernel's (signed) offset.
ReadOutcome(ino, fh, offset_i64, size) ==
    LET offset == AsU64(offset_i64)
    IN  IF GetNode(ino).some /\ fh \in DOMAIN open_files /\ open_files[fh] = ino
        THEN LET node == GetNode(ino).node
                 file_size == NodeSize(node)
                 to_read == ToRead(size, file_size, offset)
             IN  IF offset > file_size THEN ReadError("EINVAL")
                 ELSE IF ~HasMapping(node) THEN ReadError("EINVAL")
                 ELSE IF to_read = 0
                      THEN [reply |-> [op |-> "read", kind |-> "data", data |-> <<>>,
                                       fetched |-> <<>>],
                            stores |-> chunkstores]
                 ELSE ReadChunks(node.file_mapping.chunks, 1, offset, to_read,
                                 [k \in 1..to_read |-> 0], chunkstores, <<>>)
        ELSE ReadError("EBADF")

\* readdir into a reply buffer with room for room entries.
ReaddirReply(ino, fh, offset_i64, room) ==
    IF ino \in DOMAIN dir_map /\ fh \in DOMAIN open_dirs /\ open_dirs[fh] = ino
    THEN LET entries == dir_map[ino]
             skip == Min(AsU64(offset_i64), Len(entries))
             last == Min(skip + room, Len(entries))
         IN  IF \E k \in (skip + 1)..Min(last + 1, Len(entries)) :
                    ~GetNode(entries[k]).some
             THEN [op |-> "readdir", kind |-> "panic"]
             ELSE [op |-> "readdir", kind |-> "entries",
                   entries |-> [k \in 1..(last - skip) |->
                       [ino |-> entries[skip + k], offset |-> skip + k,
                        kind |-> NodeKind(GetNode(entries[skip + k]).node),
                        name |-> NodeName(GetNode(entries[skip + k]).node)]]]
    ELSE Error("readdir", "EBADF")

\* A callback that panics takes the mount down with it.
Replied(r) ==
    /\ reply' = r
    /\ phase' = IF r.kind = "panic" THEN "panicked" ELSE phase

Lookup(parent, name) ==
    /\ phase = "mounted"
    /\ Replied(LookupReply(parent, name))
    /\ UNCHANGED <<backup, chunkstores>>
    /\ UNCHANGED fsVars
    /\ UNCHANGED lockVars
    /\ UNCHANGED verifyVars
    /\ UNCHANGED codecVars
    /\ UNCHANGED handleVars

Getattr(ino, fh) ==
    /\ phase = "mounted"
    /\ Replied(GetattrReply(ino, fh))
    /\ UNCHANGED <<backup, chunkstores>>
    /\ UNCHANGED fsVars
    /\ UNCHANGED lockVars
    /\ UNCHANGED verifyVars
    /\ UNCHANGED codecVars
    /\ UNCHANGED handleVars

Open(ino) ==
    /\ phase = "mounted"
    /\ open_files' = MapInsert(open_files, next_file_fh, ino)
    /\ next_file_fh' = WrappingNext(next_file_fh)
    /\ Replied([op |-> "open", kind |-> "opened", fh |-> next_file_fh])
    /\ collided' = (collided \/ next_file_fh \in DOMAIN open_files)
    /\ live_files' = IF collided' THEN {} ELSE live_files \cup {<<next_file_fh, ino>>}
    /\ live_dirs' = IF collided' THEN {} ELSE live_dirs
    /\ UNCHANGED <<backup, chunkstores, open_dirs, next_dir_fh>>
    /\ UNCHANGED fsVars
    /\ UNCHANGED lockVars
    /\ UNCHANGED verifyVars
    /\ UNCHANGED codecVars

Read(ino, fh, offset, size) ==
    /\ phase = "mounted"
    /\ LET r == ReadOutcome(ino, fh, offset, size)
       IN  Replied(r.reply) /\ chunkstores' = r.stores
    /\ UNCHANGED backup
    /\ UNCHANGED fsVars
    /\ UNCHANGED lockVars
    /\ UNCHANGED verifyVars
    /\ UNCHANGED codecVars
    /\ UNCHANGED handleVars

\* A release that removes the handle and does not put it back on a mismatch.
ReleaseDropping(op, table, ino, fh) ==
    IF fh \in DOMAIN table
    THEN [reply |-> IF table[fh] = ino THEN [op |-> op, kind |-> "ok"]
                    ELSE Error(op, "EBADF"),
          table |-> MapRemove(table, fh)]
    ELSE [reply |-> Error(op, "EBADF"), table |-> table]

\* A release that puts the handle back under the inode it was called with.
ReleaseRebinding(op, table, ino, fh) ==
    IF fh \in DOMAIN table
    THEN IF table[fh] = ino
         THEN [reply |-> [op |-> op, kind |-> "ok"], table |-> MapRemove(table, fh)]
         ELSE [reply |-> Error(op, "EBADF"),
               table |-> MapInsert(MapRemove(table, fh), fh, ino)]
    ELSE [reply |-> Error(op, "EBADF"), table |-> table]

\* release and releasedir on their handle table: the reply and the table
\* afterwards.  The handle is removed first and put back on a mismatch.
ReleaseOutcome(op, table, ino, fh) ==
    IF fh \in DOMAIN table
    THEN IF table[fh] = ino
         THEN [reply |-> [op |-> op, kind |-> "ok"], table |-> MapRemove(table, fh)]
         ELSE [reply |-> Error(op, "EBADF"),
               table |-> MapInsert(MapRemove(table, fh), fh, table[fh])]
    ELSE [reply |-> Error(op, "EBADF"), table |-> table]

Release(ino, fh) ==
    /\ phase = "mounted"
    /\ LET r == ReleaseOutcome("release", open_files, ino, fh)
       IN  /\ Replied(r.reply)
           /\ open_files' = r.table
           /\ live_files' = IF r.reply.kind = "ok" THEN live_files \ {<<fh, ino>>}
                            ELSE live_files
    /\ UNCHANGED <<backup, chunkstores, open_dirs, next_file_fh, next_dir_fh,
                   live_dirs, collided>>
    /\ UNCHANGED fsVars
    /\ UNCHANGED lockVars
    /\ UNCHANGED verifyVars
    /\ UNCHANGED codecVars

Opendir(ino) ==
    /\ phase = "mounted"
    /\ open_dirs' = MapInsert(open_dirs, next_dir_fh, ino)
    /\ next_dir_fh' = WrappingNext(next_dir_fh)
    /\ Replied([op |-> "opendir", kind |-> "opened", fh |-> next_dir_fh])
    /\ collided' = (collided \/ next_dir_fh \in DOMAIN open_dirs)
    /\ live_dirs' = IF collided' THEN {} ELSE live_dirs \cup {<<next_dir_fh, ino>>}
    /\ live_files' = IF collided' THEN {} ELSE live_files
    /\ UNCHANGED <<backup, chunkstores, open_files, next_file_fh>>
    /\ UNCHANGED fsVars
    /\ UNCHANGED lockVars
    /\ UNCHANGED verifyVars
    /\ UNCHANGED codecVars

Readdir(ino, fh, offset, room) ==
    /\ phase = "mounted"
    /\ Replied(ReaddirReply(ino, fh, offset, room))
    /\ UNCHANGED <<backup, chunkstores>>
    /\ UNCHANGED fsVars
    /\ UNCHANGED lockVars
    /\ UNCHANGED verifyVars
    /\ UNCHANGED codecVars
    /\ UNCHANGED handleVars

Releasedir(ino, fh) ==
    /\ phase = "mounted"
    /\ LET r == ReleaseOutcome("releasedir", open_dirs, ino, fh)
       IN  /\ Replied(r.reply)
           /\ open_dirs' = r.table
           /\ live_dirs' = IF r.reply.kind = "ok" THEN live_dirs \ {<<fh, ino>>}
                           ELSE live_dirs
    /\ UNCHANGED <<backup, chunkstores, open_files, next_file_fh, next_dir_fh,
                   live_files, collided>>
    /\ UNCHANGED fsVars
    /\ UNCHANGED lockVars
    /\ UNCHANGED verifyVars
    /\ UNCHANGED codecVars

Statfs ==
    /\ phase = "mounted"
    /\ Replied([op |-> "statfs", kind |-> "statfs", blocks |-> blocks,
                files |-> Len(inodes) + 1])
    /\ UNCHANGED <<backup, chunkstores>>
    /\ UNCHANGED fsVars
    /\ UNCHANGED lockVars
    /\ UNCHANGED verifyVars
    /\ UNCHANGED codecVars
    /\ UNCHANGED handleVars

----------------------------------------------------------------------------
(* The backups the model is run on.                                        *)

MaxMappings == 3

MaxDepth == 3

A == <<"a">>

B == <<"b">>

Names == {A, B}

\* The components of a path joined into a file name with one separator.
RECURSIVE Join(_, _)
Join(path, sep) ==
    IF Len(path) = 1 THEN path[1]
    ELSE path[1] \o <<sep>> \o Join(Tail(path), sep)

RegularPaths == UNION {[1..k -> Names] : k \in 1..MaxDepth}

\* File names as manifests spell them: with "/" or "\", and some with empty
\* pieces, with both separators, with a two-character name, or empty.
Filenames ==
    {Join(p, "/") : p \in RegularPaths}
        \cup {Join(p, "\\") : p \in {<<A, B>>, <<A, B, A>>}}
        \cup {<<>>, <<"a", "/">>, <<"/", "b">>, <<"a", "/", "/", "b">>,
              <<"a", "/", "b", "\\", "a">>, <<"a", "b">>}

Metadata(depot_id, encrypted) ==
    [depot_id |-> depot_id, creation_time |-> 100 * depot_id,
     filenames_encrypted |-> encrypted]

\* The file mappings of the assembly runs: files without content, and two
\* directories that manifests list themselves.
AssemblyMappings ==
    {[filename |-> f, flags |-> 0, size |-> 0, chunks |-> <<>>] : f \in Filenames}
        \cup {[filename |-> f, flags |-> DIR_FLAG, size |-> 0, chunks |-> <<>>] :
                 f \in {A, <<"a", "/", "b">>}}

\* sku.manifests is ordered by depot: the manifest of depot 1, then of depot 2.
ManifestFile(depot, read_ok, depot_id, encrypted, mappings) ==
    [depot |-> depot, read_ok |-> read_ok,
     metadata |-> Metadata(depot_id, encrypted), mappings |-> mappings]

\* Two sound manifests that share the mappings ms, the first k in depot 1.
SoundManifests(ms, k) ==
    <<ManifestFile(1, TRUE, 1, FALSE, SubSeq(ms, 1, k)),
      ManifestFile(2, TRUE, 2, FALSE, SubSeq(ms, k + 1, Len(ms)))>>

\* Manifests of which the second is unreadable, of another depot, or has
\* encrypted file names.
DefectiveManifests(ms) ==
    {<<ManifestFile(1, TRUE, 1, FALSE, ms), ManifestFile(2, FALSE, 2, FALSE, <<>>)>>,
     <<ManifestFile(1, TRUE, 1, FALSE, ms), ManifestFile(2, TRUE, 3, FALSE, ms)>>,
     <<ManifestFile(1, TRUE, 1, TRUE, ms), ManifestFile(2, TRUE, 2, FALSE, <<>>)>>,
     <<ManifestFile(1, TRUE, 1, FALSE, ms), ManifestFile(2, TRUE, 2, TRUE, ms)>>}

Backup(manifests, stores) == [manifests |-> manifests, stores |-> stores]

\* A chunkstore pair of one depot whose CSD holds the zip archives of the
\* given chunk contents one after the other, and whose CSM lists them.
RECURSIVE CsdOf(_)
CsdOf(datas) == IF datas = <<>> THEN <<>> ELSE Zip(Head(datas)) \o CsdOf(Tail(datas))

CsmChunksOf(datas) ==
    [i \in DOMAIN datas |->
        [sha |-> Sha1(datas[i]), offset |-> Len(CsdOf(SubSeq(datas, 1, i - 1))),
         uncompressed_length |-> Len(datas[i]),
         compressed_length |-> Len(Zip(datas[i]))]]

SoundStore(depot, datas) ==
    [depot |-> depot, index |-> 1, csm_ok |-> TRUE, csd_ok |-> TRUE,
     csm |-> [is_encrypted |-> FALSE, depot |-> depot, chunks |-> CsmChunksOf(datas)],
     csd |-> CsdOf(datas)]

ChunkRef(data, offset) ==
    [sha |-> Sha1(data), offset |-> offset, cb_original |-> Len(data)]

D1 == <<1>>

D2 == <<2, 3>>

\* The manifest of the mounted runs: a directory that the manifest lists
\* itself, and a file of one chunk below a directory that it does not list.
MountMappings ==
    <<[filename |-> A, flags |-> DIR_FLAG, size |-> 0, chunks |-> <<>>],
      [filename |-> <<"b", "/", "a">>, flags |-> 0, size |-> 1,
       chunks |-> <<ChunkRef(D1, 0)>>]>>

D3 == <<4>>

D4 == <<5>>

\* A chunkstore whose CSM lists, after D1 and D2, the digest of D4 where the
\* CSD holds the archive of other bytes.  No store lists the digest of D3.
DamagedStore ==
    LET sound == SoundStore(1, <<D1, D2>>)
    IN  [sound EXCEPT
            !.csm.chunks = Append(@, [sha |-> Sha1(D4), offset |-> Len(sound.csd),
                                      uncompressed_length |-> 1,
                                      compressed_length |-> 3]),
            !.csd = @ \o Zip(<<9>>)]

MaxChunks == 2

MaxFileSize == 3

\* The chunk lists of the read runs: up to MaxChunks chunks anywhere in the
\* file, and every file made of up to MaxChunks + 1 sound chunks end to end.
ChunkRefs == {ChunkRef(d, o) : d \in {D1, D2, D3, D4}, o \in 0..(MaxFileSize - 1)}

RECURSIVE EndToEnd(_, _)
EndToEnd(datas, offset) ==
    IF datas = <<>> THEN <<>>
    ELSE <<ChunkRef(Head(datas), offset)>>
             \o EndToEnd(Tail(datas), offset + Len(Head(datas)))

ReadChunkLists ==
    UNION {[1..k -> ChunkRefs] : k \in 0..MaxChunks}
        \cup {EndToEnd(ds, 0) : ds \in [1..(MaxChunks + 1) -> {D1, D2}]}

ReadBackup(chunk_list, size) ==
    Backup(<<ManifestFile(1, TRUE, 1, FALSE,
                <<[filename |-> A, flags |-> 0, size |-> size,
                   chunks |-> chunk_list]>>)>>,
           <<DamagedStore>>)

----------------------------------------------------------------------------
(* The mount command.                                                      *)

Unmounted(b) ==
    /\ backup = b
    /\ phase = "unmounted"
    /\ inodes = <<>>
    /\ dir_map = EmptyMap
    /\ path_map = EmptyMap
    /\ chunks = EmptyMap
    /\ chunkstores = <<>>
    /\ blocks = 0
    /\ open_files = EmptyMap
    /\ open_dirs = EmptyMap
    /\ next_file_fh = 0
    /\ next_dir_fh = 0
    /\ reply = [op |-> "none"]
    /\ live_files = {}
    /\ live_dirs = {}
    /\ collided = FALSE
    /\ verifier = [pc |-> "idle"]
    /\ tasks = <<>>
    /\ output = <<>>
    /\ manifest = [some |-> FALSE]
    /\ stream = <<>>
    /\ parsed = [done |-> FALSE]
    /\ locks = <<>>
    /\ readers = EmptyMap

\* MountBackup::run up to the mount: BackupFs::prepare on the backup.
PrepareFs ==
    /\ phase = "unmounted"
    /\ LET r == Prepare(backup)
       IN  /\ phase' = r.status
           /\ IF r.status = "mounted"
              THEN /\ inodes' = r.inodes
                   /\ dir_map' = r.dir_map
                   /\ path_map' = r.path_map
                   /\ chunks' = r.chunks
                   /\ chunkstores' = r.chunkstores
                   /\ blocks' = r.blocks
                   /\ locks' = [s \in DOMAIN r.chunkstores |-> {}]
              ELSE UNCHANGED <<inodes, dir_map, path_map, chunks, chunkstores, blocks,
                               locks>>
    /\ UNCHANGED <<backup, reply, readers>>
    /\ UNCHANGED handleVars
    /\ UNCHANGED verifyVars
    /\ UNCHANGED codecVars

InitPrepare ==
    \/ \E n \in 0..MaxMappings : \E ms \in [1..n -> AssemblyMappings] :
          \E k \in 0..n : Unmounted(Backup(SoundManifests(ms, k), <<>>))
    \/ \E m \in AssemblyMappings : \E d \in DefectiveManifests(<<m>>) :
          Unmounted(Backup(d, <<>>))

NextPrepare == PrepareFs

SpecPrepare == InitPrepare /\ [][NextPrepare]_vars

----------------------------------------------------------------------------
(* The mounted filesystem under the kernel's callbacks.                    *)

\* At most MaxLive handles are open at a time.
MaxLive == 2

\* The largest size of a file, and one more for an offset or a length.
MaxSize == 1

InoArgs == 0..(Len(inodes) + 2)

OpenArgs == 1..(Len(inodes) + 1)

FhArgs == 0..(FhSpace - 1)

OptFhArgs == {<<>>} \cup {<<h>> : h \in FhArgs}

OffsetArgs == (-1)..(MaxSize + 1)

SizeArgs == 0..(MaxSize + 1)

NameArgs == Names \cup {<<"c">>}

RoomArgs == 0..2

MayOpen == Cardinality(DOMAIN open_files) + Cardinality(DOMAIN open_dirs) < MaxLive

Init ==
    Unmounted(Backup(<<ManifestFile(1, TRUE, 1, FALSE, MountMappings)>>,
                     <<SoundStore(1, <<D2, D1>>)>>))

\* The kernel calls with any inode and handle; it varies the offset, length
\* and reply room on the handles it holds.
Next ==
    \/ PrepareFs
    \/ \E parent \in InoArgs, name \in NameArgs : Lookup(parent, name)
    \/ \E ino \in InoArgs, fh \in OptFhArgs : Getattr(ino, fh)
    \/ \E ino \in OpenArgs : MayOpen /\ Open(ino)
    \/ \E ino \in InoArgs, fh \in FhArgs : Read(ino, fh, 0, 1)
    \/ \E fh \in DOMAIN open_files, offset \in OffsetArgs, size \in SizeArgs :
          Read(open_files[fh], fh, offset, size)
    \/ \E ino \in InoArgs, fh \in FhArgs : Release(ino, fh)
    \/ \E ino \in OpenArgs : MayOpen /\ Opendir(ino)
    \/ \E ino \in InoArgs, fh \in FhArgs : Readdir(ino, fh, 0, 1)
    \/ \E fh \in DOMAIN open_dirs, offset \in OffsetArgs, room \in RoomArgs :
          Readdir(open_dirs[fh], fh, offset, room)
    \/ \E ino \in InoArgs, fh \in FhArgs : Releasedir(ino, fh)
    \/ Statfs

Spec == Init /\ [][Next]_vars

----------------------------------------------------------------------------
(* One file of any shape under open, read and release.                     *)

ReadOffsetArgs == (-1)..(MaxFileSize + 1)

ReadSizeArgs == 0..(MaxFileSize + 1)

InitRead ==
    \E chunk_list \in ReadChunkLists, size \in 0..MaxFileSize :
        Unmounted(ReadBackup(chunk_list, size))

NextRead ==
    \/ PrepareFs
    \/ open_files = EmptyMap /\ Open(2)
    \/ \E fh \in FhArgs, offset \in ReadOffsetArgs, size \in ReadSizeArgs :
          Read(2, fh, offset, size)
    \/ \E fh \in FhArgs : Release(2, fh)

SpecRead == InitRead /\ [][NextRead]_vars
----------------------------------------------------------------------------
(* Properties of read.                                                     *)

NodeInos == 2..(Len(inodes) + 1)

\* The handles that open returned for ino and that are still open.
LiveFor(ino) == {fh \in DOMAIN open_files : open_files[fh] = ino}

RegularFiles ==
    {ino \in NodeInos : GetNode(ino).node.real
                           /\ NodeKind(GetNode(ino).node) = "RegularFile"}

Directories == {ino \in NodeInos : NodeKind(GetNode(ino).node) = "Directory"}

\* The chunk list covers [0, size) without gap or overlap.
Contiguous(fm) ==
    LET cs == fm.chunks
    IN  IF cs = <<>> THEN fm.size = 0
        ELSE /\ cs[1].offset = 0
             /\ \A i \in 1..(Len(cs) - 1) :
                    cs[i + 1].offset = cs[i].offset + cs[i].cb_original
             /\ cs[Len(cs)].offset + cs[Len(cs)].cb_original = fm.size

\* Every chunk of the file is routed to a store that holds it intact.
Intact(fm) ==
    \A i \in DOMAIN fm.chunks :
        /\ fm.chunks[i].sha \in DOMAIN chunks
        /\ ChunkData(chunkstores[chunks[fm.chunks[i].sha]], fm.chunks[i].sha).ok

\* The decompressed chunks of the file one after the other.
RECURSIVE PlainBytes(_, _)
PlainBytes(cs, n) ==
    IF n = 0 THEN <<>> ELSE PlainBytes(cs, n - 1) \o cs[n].sha.sha1

\* C1: a read at offset o of length L through a live handle of a real file
\* whose chunks cover [0, size) end to end returns min(L, size - o) bytes,
\* which are the bytes o .. o + returned of the file's decompressed chunks.
C1_ReadReturnsSlice ==
    phase = "mounted" =>
        \A ino \in RegularFiles :
            LET fm == GetNode(ino).node.file_mapping
            IN  Contiguous(fm) /\ Intact(fm) =>
                    \A fh \in LiveFor(ino), o \in 0..fm.size, L \in ReadSizeArgs :
                        LET r == ReadOutcome(ino, fh, o, L).reply
                        IN  /\ r.kind = "data"
                            /\ r.data = SubSeq(PlainBytes(fm.chunks, Len(fm.chunks)),
                                               o + 1, o + Min(L, fm.size - o))

\* C2: a read through a live handle of a directory node, synthetic or listed
\* by a manifest with flag 0x40, replies EINVAL at every offset and length.
C2_DirectoryReadInvalid ==
    phase = "mounted" =>
        \A ino \in Directories : \A fh \in LiveFor(ino) :
        \A o \in OffsetArgs, L \in SizeArgs :
            ReadOutcome(ino, fh, o, L).reply = ReadError("EINVAL").reply

\* C3: a read of a regular file at an offset past its size (a negative
\* offset of the kernel included) replies EINVAL and touches no ChunkStore.
C3_ReadPastEndInvalid ==
    phase = "mounted" =>
        \A ino \in RegularFiles : \A fh \in LiveFor(ino) :
        \A o \in ReadOffsetArgs, L \in ReadSizeArgs :
            (o < 0 \/ o > NodeSize(GetNode(ino).node)) =>
                /\ ReadOutcome(ino, fh, o, L).reply
                       = [op |-> "read", kind |-> "error", errno |-> "EINVAL",
                          fetched |-> <<>>]
                /\ ReadOutcome(ino, fh, o, L).stores = chunkstores

\* read has replied EINVAL on the live handle of a file that has bytes and
\* chunks.
C3_Witness ==
    /\ phase = "mounted"
    /\ reply = [op |-> "read", kind |-> "error", errno |-> "EINVAL", fetched |-> <<>>]
    /\ \E ino \in RegularFiles :
          /\ LiveFor(ino) # {}
          /\ NodeSize(GetNode(ino).node) > 0
          /\ GetNode(ino).node.file_mapping.chunks # <<>>

\* C4: a read of a regular file at the offset of its end, or of length 0 at
\* an offset up to its end, replies no bytes and no error and touches no
\* ChunkStore.
C4_ReadAtEndEmpty ==
    phase = "mounted" =>
        \A ino \in RegularFiles : \A fh \in LiveFor(ino) :
        \A o \in 0..NodeSize(GetNode(ino).node), L \in ReadSizeArgs :
            (o = NodeSize(GetNode(ino).node) \/ L = 0) =>
                /\ ReadOutcome(ino, fh, o, L).reply
                       = [op |-> "read", kind |-> "data", data |-> <<>>,
                          fetched |-> <<>>]
                /\ ReadOutcome(ino, fh, o, L).stores = chunkstores

\* read has replied no bytes on the live handle of a file that has bytes.
C4_Witness ==
    /\ phase = "mounted"
    /\ reply = [op |-> "read", kind |-> "data", data |-> <<>>, fetched |-> <<>>]
    /\ \E ino \in RegularFiles :
          /\ LiveFor(ino) # {}
          /\ NodeSize(GetNode(ino).node) > 0
          /\ Contiguous(GetNode(ino).node.file_mapping)

----------------------------------------------------------------------------
(* Properties of the handle tables.                                        *)

\* The handle h of a table does not stand for the inode ino.
NotLiveFor(table, ino, h) == h \notin DOMAIN table \/ table[h] # ino

\* The pairs <<handle, inode>> of a handle table.
Pairs(table) == {<<h, table[h]>> : h \in DOMAIN table}

\* C5: read and release reply EBADF for a handle that is not in the open-file
\* table or is recorded there for another inode, readdir and releasedir
\* likewise for the open-directory table, and getattr with a handle that
\* neither table records for the inode; the reply carries nothing else.
C5_StaleHandleIsBadFd ==
    phase = "mounted" =>
        \A ino \in InoArgs, h \in FhArgs :
            /\ NotLiveFor(open_files, ino, h) =>
                   /\ \A o \in OffsetArgs, L \in SizeArgs :
                          ReadOutcome(ino, h, o, L).reply
                              = [op |-> "read", kind |-> "error", errno |-> "EBADF",
                                 fetched |-> <<>>]
                   /\ ReleaseOutcome("release", open_files, ino, h).reply
                          = [op |-> "release", kind |-> "error", errno |-> "EBADF"]
            /\ NotLiveFor(open_dirs, ino, h) =>
                   /\ \A o \in OffsetArgs, room \in RoomArgs :
                          ReaddirReply(ino, h, o, room)
                              = [op |-> "readdir", kind |-> "error", errno |-> "EBADF"]
                   /\ ReleaseOutcome("releasedir", open_dirs, ino, h).reply
                          = [op |-> "releasedir", kind |-> "error", errno |-> "EBADF"]
            /\ NotLiveFor(open_files, ino, h) /\ NotLiveFor(open_dirs, ino, h) =>
                   GetattrReply(ino, <<h>>)
                       = [op |-> "getattr", kind |-> "error", errno |-> "EBADF"]

\* getattr has replied EBADF while every handle number is live in a table:
\* the handle it was given is recorded for another inode.
C5_Witness ==
    /\ phase = "mounted"
    /\ reply = [op |-> "getattr", kind |-> "error", errno |-> "EBADF"]
    /\ DOMAIN open_files \cup DOMAIN open_dirs = FhArgs

\* C6: while no open has reused a handle number that was live, each table
\* holds exactly the handles returned by open (opendir) and not yet released
\* with success, each for the inode it was opened for; and the handle an open
\* returns is followed, modulo the size of the counter, by the next one.
C6_TablesAreLiveHandles ==
    /\ ~collided => Pairs(open_files) = live_files /\ Pairs(open_dirs) = live_dirs
    /\ reply.op = "open" => next_file_fh = (reply.fh + 1) % FhSpace
    /\ reply.op = "opendir" => next_dir_fh = (reply.fh + 1) % FhSpace

\* open has returned handle 0 while the last handle number is still open: the
\* counter has wrapped onto a number that had been released.
C6_Witness ==
    /\ ~collided
    /\ reply = [op |-> "open", kind |-> "opened", fh |-> 0]
    /\ (FhSpace - 1) \in DOMAIN open_files
    /\ live_files = Pairs(open_files)

----------------------------------------------------------------------------
(* Properties of the assembly.                                             *)

\* C7: prepare mounts no filesystem from a backup one of whose manifests
\* reports encrypted file names.
C7_EncryptedNeverMounts ==
    (\E i \in DOMAIN backup.manifests :
        backup.manifests[i].metadata.filenames_encrypted) => phase # "mounted"

\* The places <<d, k>> of the directory map that hold ino.
Places(ino) ==
    {dk \in UNION {{d} \X DOMAIN dir_map[d] : d \in DOMAIN dir_map} :
        dir_map[dk[1]][dk[2]] = ino}

IsDirectoryInode(d) ==
    d = ROOT_INODE \/ (GetNode(d).some /\ NodeKind(GetNode(d).node) = "Directory")

\* d is the node of a path that a manifest lists as a regular file.
IsListedFile(d) ==
    /\ GetNode(d).some
    /\ GetNode(d).node.real
    /\ NodeKind(GetNode(d).node) = "RegularFile"

Children(d) == IF d \in DOMAIN dir_map THEN Range(dir_map[d]) ELSE {}

\* The inodes reached from an inode along child lists whose names spell names.
RECURSIVE Walk(_, _)
Walk(from, names) ==
    IF names = <<>> THEN {from}
    ELSE UNION {Walk(c, Tail(names)) :
                   c \in {x \in Children(from) :
                             GetNode(x).some /\ NodeName(GetNode(x).node) = Head(names)}}

\* C9: for a real node and every prefix of its path, the empty one included,
\* the path index resolves the prefix to an inode from which the child lists
\* lead to the node along the names of the rest of the path; and every
\* synthetic node is reached from inode 1 along the names of the path that
\* the path index records for it.
C9_PrefixesResolve ==
    phase = "mounted" =>
        /\ <<>> \in DOMAIN path_map /\ path_map[<<>>] = ROOT_INODE
        /\ \A ino \in NodeInos :
               LET node == GetNode(ino).node
               IN  IF node.real
                   THEN \A k \in 0..Len(node.path) :
                            /\ SubSeq(node.path, 1, k) \in DOMAIN path_map
                            /\ ino \in Walk(path_map[SubSeq(node.path, 1, k)],
                                            SubSeq(node.path, k + 1, Len(node.path)))
                   ELSE \E p \in DOMAIN path_map :
                            path_map[p] = ino /\ ino \in Walk(ROOT_INODE, p)

\* Mounted with a real node of the deepest path below two synthetic nodes.
C9_Witness ==
    /\ phase = "mounted"
    /\ \E ino \in NodeInos :
          /\ GetNode(ino).node.real
          /\ Len(GetNode(ino).node.path) = MaxDepth
          /\ \A k \in 1..(MaxDepth - 1) :
                 ~GetNode(path_map[SubSeq(GetNode(ino).node.path, 1, k)]).node.real

\* The path an inode stands for: the names from the root down to it.
RECURSIVE PathOf(_)
PathOf(ino) ==
    IF ino = ROOT_INODE THEN <<>>
    ELSE Append(PathOf(CHOOSE d \in DOMAIN dir_map : ino \in Range(dir_map[d])),
                NodeName(GetNode(ino).node))

\* C10: no two nodes of the inode table stand for the same path, and a real
\* node stands for the path of its file mapping.
C10_PathsAreUnique ==
    phase = "mounted" =>
        /\ \A i \in NodeInos, j \in NodeInos : i # j => PathOf(i) # PathOf(j)
        /\ \A i \in NodeInos : GetNode(i).node.real => PathOf(i) = GetNode(i).node.path

\* Mounted from two manifests that list the same path, below a directory
\* that no manifest lists.
C10_Witness ==
    /\ phase = "mounted"
    /\ \E i \in DOMAIN backup.manifests[1].mappings,
          j \in DOMAIN backup.manifests[2].mappings :
          /\ FilenameToPath(backup.manifests[1].mappings[i].filename)
                 = FilenameToPath(backup.manifests[2].mappings[j].filename)
          /\ Len(FilenameToPath(backup.manifests[1].mappings[i].filename)) >= 2
    /\ \E ino \in NodeInos : ~GetNode(ino).node.real

\* C11: after the assembly of any backup, one without file mappings
\* included, the directory map has an entry for inode 1, inode 1 is no
\* position of the node table, and lookup on the root does not reply EINVAL.
C11_RootIsDirectory ==
    phase = "mounted" =>
        /\ ROOT_INODE \in DOMAIN dir_map
        /\ ~GetNode(ROOT_INODE).some
        /\ \A name \in NameArgs :
               LookupReply(ROOT_INODE, name)
                   # [op |-> "lookup", kind |-> "error", errno |-> "EINVAL"]

----------------------------------------------------------------------------
(* One ChunkStore under open and chunk_data.                               *)

\* The number of descriptors of a CSM.
MaxDescriptors == 2

\* What a CSD holds where a chunk is expected: the archives of D1 and of D2,
\* an LZMA ("VZ") payload, and bytes of no known kind.
Payloads == {Zip(D1), Zip(D2), VZ \o <<1>>, <<1, 2, 3>>}

\* The descriptors of a CSM: they need not agree with the CSD.
Descriptors ==
    [sha : {Sha1(D1), Sha1(D2)}, offset : {0, 3, 4},
     uncompressed_length : {1, 2}, compressed_length : {1, 3, 4, 5}]

\* The digests chunk_data is asked for; no CSM lists the digest of D3.
DigestArgs == {Sha1(D1), Sha1(D2), Sha1(D3)}

StoreFile(descriptors, csd) ==
    [depot |-> 1, index |-> 1, csm_ok |-> TRUE, csd_ok |-> TRUE,
     csm |-> [is_encrypted |-> FALSE, depot |-> 1, chunks |-> descriptors],
     csd |-> csd]

\* ChunkStore::open on the one chunkstore of the backup.
OpenStore ==
    /\ phase = "unmounted"
    /\ LET r == ChunkStoreOpen(backup.stores[1])
       IN  IF r.ok
           THEN phase' = "opened" /\ chunkstores' = <<r.store>>
           ELSE phase' = "failed" /\ UNCHANGED chunkstores
    /\ UNCHANGED <<backup, reply>>
    /\ UNCHANGED fsVars
    /\ UNCHANGED lockVars
    /\ UNCHANGED verifyVars
    /\ UNCHANGED codecVars
    /\ UNCHANGED handleVars

\* chunk_data(sha) on the open ChunkStore.
ChunkDataCall(sha) ==
    /\ phase = "opened"
    /\ LET r == ChunkData(chunkstores[1], sha)
       IN  /\ chunkstores' = <<r.store>>
           /\ reply' = [op |-> "chunk_data", sha |-> sha, ok |-> r.ok, err |-> r.err,
                        data |-> r.data]
    /\ UNCHANGED <<backup, phase>>
    /\ UNCHANGED fsVars
    /\ UNCHANGED lockVars
    /\ UNCHANGED verifyVars
    /\ UNCHANGED codecVars
    /\ UNCHANGED handleVars

InitChunk ==
    \E descriptors \in [1..MaxDescriptors -> Descriptors] :
    \E p \in Payloads, q \in Payloads :
        Unmounted(Backup(<<>>, <<StoreFile(descriptors, p \o q)>>))

NextChunk ==
    \/ OpenStore
    \/ \E sha \in DigestArgs : ChunkDataCall(sha)

SpecChunk == InitChunk /\ [][NextChunk]_vars

----------------------------------------------------------------------------
(* Properties of chunk_data.                                               *)

\* The descriptor of a digest that the CSM lists.
DescriptorOf(cs, sha) == cs.csm.chunks[cs.chunk_map[sha]]

\* Where the next chunk_data(sha) reads: at the descriptor's offset after a
\* seek, at the cursor of the file without one.
ReadStart(cs, sha) ==
    IF DescriptorOf(cs, sha).offset # cs.position
    THEN DescriptorOf(cs, sha).offset
    ELSE cs.cursor

\* The file holds all the bytes the next chunk_data(sha) asks for.
ReadFits(cs, sha) ==
    ReadStart(cs, sha) + DescriptorOf(cs, sha).compressed_length <= Len(cs.csd)

\* The bytes the next chunk_data(sha) reads from the file.
PayloadRead(cs, sha) ==
    SubSeq(cs.csd, ReadStart(cs, sha) + 1,
           ReadStart(cs, sha) + DescriptorOf(cs, sha).compressed_length)

\* C12: chunk_data(d) returns bytes only when their length is the
\* descriptor's uncompressed_length and their SHA-1 is d; a payload that
\* does not start with "PK" ("VZ" included) gives an error, an archive of
\* another length WrongLength, an archive of the length with another digest
\* WrongDigest.
C12_ChunkDataVerified ==
    phase = "opened" =>
        \A sha \in DigestArgs :
            LET cs == chunkstores[1]
                r == ChunkData(cs, sha)
            IN  /\ r.ok =>
                       /\ sha \in DOMAIN cs.chunk_map
                       /\ Len(r.data) = DescriptorOf(cs, sha).uncompressed_length
                       /\ [sha1 |-> r.data] = sha
                /\ (sha \in DOMAIN cs.chunk_map /\ ReadFits(cs, sha)) =>
                       LET c == PayloadRead(cs, sha)
                           n == DescriptorOf(cs, sha).uncompressed_length
                           archive == Len(c) >= 2 /\ SubSeq(c, 1, 2) = <<80, 75>>
                       IN  /\ ~archive => ~r.ok
                           /\ (archive /\ Len(c) - 2 # n) =>
                                  ~r.ok /\ r.err = "WrongLength"
                           /\ (archive /\ Len(c) - 2 = n
                                  /\ [sha1 |-> SubSeq(c, 3, Len(c))] # sha) =>
                                  ~r.ok /\ r.err = "WrongDigest"

\* chunk_data has returned the bytes of one chunk, and the CSM lists another
\* digest for bytes that are not its own.
C12_Witness ==
    /\ phase = "opened"
    /\ reply.op = "chunk_data" /\ reply.ok /\ reply.data # <<>>
    /\ \E sha \in DOMAIN chunkstores[1].chunk_map :
          /\ ReadFits(chunkstores[1], sha)
          /\ ChunkData(chunkstores[1], sha).err = "WrongDigest"

\* C13: the outcome of chunk_data(d), bytes or kind of failure, is that of
\* chunk_data(d) on the store as opened, whatever calls came before.
C13_OutcomeIgnoresHistory ==
    phase = "opened" =>
        \A sha \in DigestArgs :
            LET fresh == ChunkData(ChunkStoreOpen(backup.stores[1]).store, sha)
                now == ChunkData(chunkstores[1], sha)
            IN  now.ok = fresh.ok /\ now.err = fresh.err /\ now.data = fresh.data

----------------------------------------------------------------------------
(* The verifier: VerifyBackup::run, verify_backup and verify_chunkstore.   *)
(* Its input is the record backup = [sku_ok, sku, manifest_dir,            *)
(* manifest_files, files]: whether sku.sis parses, the SKU, whether        *)
(* --manifest-dir is given, the manifest file of each depot, and the       *)
(* chunkstore files by <<depot, index>>.  sku.chunkstores maps a depot to  *)
(* the sequence of its [index, length] in the order of the BTreeMap.  A    *)
(* println is one step: the lines of concurrent tasks interleave.          *)

\* "- {e}" for an error of chunk_data: the text names the files and the
\* offset for a wrong length or digest, and nothing of the store otherwise.
ChunkErrorLine(depot, index, chunk, err) ==
    IF err \in {"WrongLength", "WrongDigest"}
    THEN [line |-> "chunk_error", err |-> err, depot |-> depot, index |-> index,
          offset |-> chunk.offset]
    ELSE [line |-> "chunk_error", err |-> err, depot |-> 0, index |-> 0, offset |-> 0]

\* bytes_read after a chunk when only the chunks that verify are counted.
BytesAfterSuccess(bytes_read, chunk, ok) ==
    IF ok THEN bytes_read + chunk.compressed_length ELSE bytes_read

\* bytes_read after a chunk, whether chunk_data failed or not.
BytesAfter(bytes_read, chunk, ok) == bytes_read + chunk.compressed_length

\* An accounting that prints its line for every chunkstore.
AccountingAlways(t, depot) ==
    IF t.length >= t.bytes_read
    THEN <<[line |-> "unaccounted", depot |-> depot, index |-> t.index,
            excess |-> t.length - t.bytes_read]>>
    ELSE <<[line |-> "duplicative", depot |-> depot, index |-> t.index]>>

\* The end of verify_chunkstore: the line on bytes of the CSD that the
\* chunks do not account for, or that they account for more than once.
Accounting(t, depot) ==
    IF t.bytes_read = t.length THEN <<>>
    ELSE IF t.length >= t.bytes_read
    THEN <<[line |-> "unaccounted", depot |-> depot, index |-> t.index,
            excess |-> t.length - t.bytes_read]>>
    ELSE <<[line |-> "duplicative", depot |-> depot, index |-> t.index]>>

\* The task spawned for a chunkstore of the SKU.
SpawnTask(entry) ==
    [index |-> entry.index, length |-> entry.length, pc |-> "open",
     opened |-> FALSE, store |-> <<>>, valid |-> TRUE, bytes_read |-> 0,
     next |-> 1, results |-> <<>>, reads |-> <<>>,
     result |-> [some |-> FALSE, chunks |-> 0]]

\* One step of verify_chunkstore: the task afterwards and the lines printed.
\* results is the history of the outcomes of its chunk_data calls, reads
\* that of the places of the CSD where they started to read.
TaskStep(t, depot, file) ==
    CASE t.pc = "open" ->
           LET r == ChunkStoreOpen(file)
           IN  IF ~r.ok
               THEN [task |-> [t EXCEPT !.pc = "done"],
                     lines |-> <<[line |-> "store_error", depot |-> depot,
                                  index |-> t.index]>>]
               ELSE IF r.store.csd_len # t.length
               THEN [task |-> [t EXCEPT !.pc = "chunks", !.opened = TRUE,
                                         !.store = r.store, !.valid = FALSE],
                     lines |-> <<[line |-> "size", depot |-> depot, index |-> t.index,
                                  expected |-> t.length, actual |-> r.store.csd_len]>>]
               ELSE [task |-> [t EXCEPT !.pc = "chunks", !.opened = TRUE,
                                         !.store = r.store],
                     lines |-> <<>>]
      [] t.pc = "chunks" /\ t.next <= Len(t.store.csm.chunks) ->
           LET chunk == t.store.csm.chunks[t.next]
               r == ChunkData(t.store, chunk.sha)
           IN  [task |-> [t EXCEPT !.store = r.store,
                                   !.valid = t.valid /\ r.ok,
                                   !.bytes_read = BytesAfter(t.bytes_read, chunk, r.ok),
                                   !.next = t.next + 1,
                                   !.results = Append(t.results, r.ok),
                                   !.reads = Append(t.reads,
                                                    ReadStart(t.store, chunk.sha))],
                lines |-> IF r.ok THEN <<>>
                          ELSE <<ChunkErrorLine(depot, t.index, chunk, r.err)>>]
      [] t.pc = "chunks" /\ t.next > Len(t.store.csm.chunks) ->
           [task |-> [t EXCEPT !.pc = "done",
                               !.result = IF t.valid
                                          THEN [some |-> TRUE,
                                                chunks |-> Len(t.store.csm.chunks)]
                                          ELSE [some |-> FALSE, chunks |-> 0]],
            lines |-> Accounting(t, depot)]

\* The depot a step of verify_backup is at.
CurrentDepot == backup.sku.depots[verifier.i]

\* The manifest of a depot as verify_backup loads it: none without
\* --manifest-dir or without an entry of the SKU, an error for a file that
\* cannot be read or that belongs to another depot.
LoadManifest(depot) ==
    IF ~backup.manifest_dir \/ depot \notin DOMAIN backup.sku.manifests
    THEN [ok |-> TRUE, some |-> FALSE, encrypted |-> FALSE, unique_chunks |-> 0]
    ELSE LET f == backup.manifest_files[depot]
         IN  IF ~f.read_ok \/ f.depot_id # depot
             THEN [ok |-> FALSE, some |-> FALSE, encrypted |-> FALSE,
                   unique_chunks |-> 0]
             ELSE [ok |-> TRUE, some |-> TRUE, encrypted |-> f.filenames_encrypted,
                   unique_chunks |-> f.unique_chunks]

\* The loop over the joined results: the chunks counted, and whether every
\* task returned a count.
RECURSIVE SumChunks(_, _)
SumChunks(ts, n) ==
    IF n = 0 THEN 0
    ELSE SumChunks(ts, n - 1) + (IF ts[n].result.some THEN ts[n].result.chunks ELSE 0)

AllCounted(ts) == \A k \in DOMAIN ts : ts[k].result.some

\* VerifyBackup::run up to the SKU: a blank line, then the name of the game,
\* or the diagnostic of run when sku.sis cannot be read.
StartVerify ==
    /\ verifier.pc = "idle"
    /\ IF backup.sku_ok
       THEN /\ output' = <<[line |-> "blank"], [line |-> "game"]>>
            /\ verifier' = [pc |-> "depot", i |-> 1, valid |-> TRUE,
                            depot_chunks |-> 0, manifest |-> LoadManifest(0)]
       ELSE /\ output' = <<[line |-> "blank"], [line |-> "failed"]>>
            /\ verifier' = [pc |-> "failed"]
    /\ UNCHANGED <<backup, phase, chunkstores, reply, tasks>>
    /\ UNCHANGED fsVars
    /\ UNCHANGED lockVars
    /\ UNCHANGED handleVars
    /\ UNCHANGED codecVars

\* The head of the loop over sku.depots, up to the spawning of the tasks.
BeginDepot ==
    /\ verifier.pc = "depot"
    /\ verifier.i <= Len(backup.sku.depots)
    /\ LET depot == CurrentDepot
           m == LoadManifest(depot)
           head == <<[line |-> "verifying", depot |-> depot]>>
       IN  IF ~m.ok \/ depot \notin DOMAIN backup.sku.chunkstores
           THEN /\ output' = output \o head \o <<[line |-> "failed"]>>
                /\ verifier' = [pc |-> "failed"]
                /\ UNCHANGED tasks
           ELSE /\ output' = output \o head
                       \o (IF m.encrypted
                           THEN <<[line |-> "encrypted", depot |-> depot]>>
                           ELSE <<>>)
                /\ verifier' = [verifier EXCEPT !.pc = "join", !.depot_chunks = 0,
                                                 !.manifest = m]
                /\ tasks' = [k \in DOMAIN backup.sku.chunkstores[depot] |->
                                SpawnTask(backup.sku.chunkstores[depot][k])]
    /\ UNCHANGED <<backup, phase, chunkstores, reply>>
    /\ UNCHANGED fsVars
    /\ UNCHANGED lockVars
    /\ UNCHANGED handleVars
    /\ UNCHANGED codecVars

\* A step of the k-th task of the depot.
TaskAdvance(k) ==
    /\ verifier.pc = "join"
    /\ tasks[k].pc # "done"
    /\ LET r == TaskStep(tasks[k], CurrentDepot,
                         backup.files[<<CurrentDepot, tasks[k].index>>])
       IN  /\ tasks' = [tasks EXCEPT ![k] = r.task]
           /\ output' = output \o r.lines
    /\ UNCHANGED <<backup, phase, chunkstores, reply, verifier>>
    /\ UNCHANGED fsVars
    /\ UNCHANGED lockVars
    /\ UNCHANGED handleVars
    /\ UNCHANGED codecVars

\* A join that goes on as soon as one task of the depot has ended.
JoinDepotEarly ==
    /\ verifier.pc = "join"
    /\ \E k \in DOMAIN tasks : tasks[k].pc = "done"
    /\ LET depot_chunks == SumChunks(tasks, Len(tasks))
       IN  /\ verifier' = [verifier EXCEPT !.pc = "depot", !.i = @ + 1,
                                            !.valid = @ /\ AllCounted(tasks),
                                            !.depot_chunks = depot_chunks]
           /\ output' = output \o
                  (IF verifier.manifest.some
                      /\ verifier.manifest.unique_chunks # depot_chunks
                   THEN <<[line |-> "mismatch", depot |-> CurrentDepot,
                           unique_chunks |-> verifier.manifest.unique_chunks,
                           depot_chunks |-> depot_chunks]>>
                   ELSE <<>>)
    /\ tasks' = <<>>
    /\ UNCHANGED <<backup, phase, chunkstores, reply>>
    /\ UNCHANGED fsVars
    /\ UNCHANGED lockVars
    /\ UNCHANGED handleVars
    /\ UNCHANGED codecVars

\* After join_all: the results are taken in the order of the chunkstores,
\* then the chunk count is compared with the manifest's unique_chunks.
JoinDepot ==
    /\ verifier.pc = "join"
    /\ \A k \in DOMAIN tasks : tasks[k].pc = "done"
    /\ LET depot_chunks == SumChunks(tasks, Len(tasks))
       IN  /\ verifier' = [verifier EXCEPT !.pc = "depot", !.i = @ + 1,
                                            !.valid = @ /\ AllCounted(tasks),
                                            !.depot_chunks = depot_chunks]
           /\ output' = output \o
                  (IF verifier.manifest.some
                      /\ verifier.manifest.unique_chunks # depot_chunks
                   THEN <<[line |-> "mismatch", depot |-> CurrentDepot,
                           unique_chunks |-> verifier.manifest.unique_chunks,
                           depot_chunks |-> depot_chunks]>>
                   ELSE <<>>)
    /\ tasks' = <<>>
    /\ UNCHANGED <<backup, phase, chunkstores, reply>>
    /\ UNCHANGED fsVars
    /\ UNCHANGED lockVars
    /\ UNCHANGED handleVars
    /\ UNCHANGED codecVars

\* After the last depot: the final line, when nothing made valid false.
FinishVerify ==
    /\ verifier.pc = "depot"
    /\ verifier.i > Len(backup.sku.depots)
    /\ output' = output \o (IF verifier.valid THEN <<[line |-> "match"]>> ELSE <<>>)
    /\ verifier' = [verifier EXCEPT !.pc = "done"]
    /\ UNCHANGED <<backup, phase, chunkstores, reply, tasks>>
    /\ UNCHANGED fsVars
    /\ UNCHANGED lockVars
    /\ UNCHANGED handleVars
    /\ UNCHANGED codecVars

\* A run that hands the error of verify_backup on to main.
RunPropagates(verified) == verified

\* VerifyBackup::run: the error of verify_backup was printed; run returns Ok.
RunResult(verified) == "Ok"

\* main: the exit code of the process for what run returned.
MainExit(ran) == IF ran = "Ok" THEN 0 ELSE 1

\* The end of the command: run returns after verify_backup has returned
\* its result or its error, and main returns what run returned.
RunReturns ==
    /\ verifier.pc \in {"done", "failed"}
    /\ "exit" \notin DOMAIN verifier
    /\ LET verified == IF verifier.pc = "failed" THEN "Err" ELSE "Ok"
       IN  verifier' = [x \in DOMAIN verifier \cup {"exit"} |->
                           IF x = "exit" THEN MainExit(RunResult(verified))
                           ELSE verifier[x]]
    /\ UNCHANGED <<backup, phase, chunkstores, reply, tasks, output>>
    /\ UNCHANGED fsVars
    /\ UNCHANGED lockVars
    /\ UNCHANGED handleVars
    /\ UNCHANGED codecVars

----------------------------------------------------------------------------
(* The backups the verifier is run on.                                     *)

\* The chunkstores of one depot, and the depots of a SKU.
MaxStores == 2

MaxDepots == 2

Descriptor(data, offset, compressed_length) ==
    [sha |-> Sha1(data), offset |-> offset, uncompressed_length |-> Len(data),
     compressed_length |-> compressed_length]

\* A chunkstore on disk and the length the SKU gives for its CSD:
\*   sound      two chunks that verify, the length of the CSD;
\*   damaged    a first chunk whose bytes have another digest, then a sound one;
\*   trailing   one sound chunk, then a byte that the CSM does not list;
\*   short      a CSD that ends inside its second chunk;
\*   longer     a sound store whose SKU length is one more than the CSD's;
\*   encrypted  a CSM that is marked encrypted;
\*   missing    no CSM file;
\*   twice      two descriptors of one digest: the second over the archive
\*              of the chunk, the first over other bytes.
StoreKinds ==
    {[file |-> SoundStore(1, <<D1, D2>>), length |-> 7],
     [file |-> StoreFile(<<Descriptor(D4, 0, 3), Descriptor(D1, 3, 3)>>,
                         Zip(<<9>>) \o Zip(D1)), length |-> 6],
     [file |-> StoreFile(<<Descriptor(D1, 0, 3)>>, Zip(D1) \o <<0>>), length |-> 4],
     [file |-> StoreFile(<<Descriptor(D1, 0, 3), Descriptor(D2, 3, 4)>>,
                         Zip(D1) \o <<80, 75, 2>>), length |-> 6],
     [file |-> SoundStore(1, <<D1, D2>>), length |-> 8],
     [file |-> [SoundStore(1, <<D1, D2>>) EXCEPT !.csm.is_encrypted = TRUE],
      length |-> 7],
     [file |-> [SoundStore(1, <<D1, D2>>) EXCEPT !.csm_ok = FALSE], length |-> 7],
     [file |-> StoreFile(<<Descriptor(D1, 0, 3), Descriptor(D1, 3, 3)>>,
                         <<9, 9, 9>> \o Zip(D1)), length |-> 6]}

\* The file of a kind as the chunkstore index of depot.
FileOf(kind, depot, index) ==
    [kind.file EXCEPT !.depot = depot, !.index = index, !.csm.depot = depot]

\* The manifest file of a depot: sound with a chunk count, unreadable, of
\* another depot, or with encrypted file names.
ManifestKinds ==
    {[read_ok |-> TRUE, own |-> TRUE, filenames_encrypted |-> FALSE, unique_chunks |-> n] :
        n \in {2, 4}}
      \cup {[read_ok |-> FALSE, own |-> TRUE, filenames_encrypted |-> FALSE,
              unique_chunks |-> 2],
             [read_ok |-> TRUE, own |-> FALSE, filenames_encrypted |-> FALSE,
              unique_chunks |-> 2],
             [read_ok |-> TRUE, own |-> TRUE, filenames_encrypted |-> TRUE,
              unique_chunks |-> 2]}

ManifestOf(kind, depot) ==
    [read_ok |-> kind.read_ok, depot_id |-> IF kind.own THEN depot ELSE depot + 1,
     filenames_encrypted |-> kind.filenames_encrypted,
     unique_chunks |-> kind.unique_chunks]

\* The backup directory of a SKU of the depots 1 .. nd, each with ns
\* chunkstores of the kinds stores[depot][index]; the manifest of depot 1 is
\* of the kind first, the others are sound.
VerifyInput(nd, ns, stores, first, with_dir) ==
    [sku_ok |-> TRUE,
     sku |-> [depots |-> [d \in 1..nd |-> d],
              manifests |-> [d \in 1..nd |-> d],
              chunkstores |-> [d \in 1..nd |->
                  [k \in 1..ns |-> [index |-> k, length |-> stores[d][k].length]]]],
     manifest_dir |-> with_dir,
     manifest_files |-> [d \in 1..nd |->
         ManifestOf(IF d = 1 THEN first
                    ELSE [read_ok |-> TRUE, own |-> TRUE,
                          filenames_encrypted |-> FALSE, unique_chunks |-> 2], d)],
     files |-> [dk \in (1..nd) \X (1..ns) |->
                   FileOf(stores[dk[1]][dk[2]], dk[1], dk[2])]]

\* A SKU that cannot be read, and SKUs that list no manifest or no
\* chunkstore for their first depot.
WithoutSku(b) == [b EXCEPT !.sku_ok = FALSE]

WithoutManifestEntry(b) ==
    [b EXCEPT !.sku.manifests = [d \in DOMAIN @ \ {1} |-> @[d]]]

WithoutChunkstoreEntry(b) ==
    [b EXCEPT !.sku.chunkstores = [d \in DOMAIN @ \ {1} |-> @[d]]]

InitVerify ==
    \/ \E stores \in [1..1 -> [1..MaxStores -> StoreKinds]] :
       \E first \in ManifestKinds, with_dir \in BOOLEAN :
          Unmounted(VerifyInput(1, MaxStores, stores, first, with_dir))
    \/ \E stores \in [1..MaxDepots -> [1..1 -> StoreKinds]] :
       \E first \in ManifestKinds :
          LET b == VerifyInput(MaxDepots, 1, stores, first, TRUE)
          IN  \/ Unmounted(b)
              \/ Unmounted(WithoutManifestEntry(b))
              \/ Unmounted(WithoutChunkstoreEntry(b))
              \/ Unmounted(WithoutSku(b))

NextVerify ==
    \/ StartVerify
    \/ BeginDepot
    \/ \E k \in DOMAIN tasks : TaskAdvance(k)
    \/ JoinDepot
    \/ FinishVerify
    \/ RunReturns

SpecVerify == InitVerify /\ [][NextVerify]_vars

----------------------------------------------------------------------------
(* Properties of the verifier.                                             *)

Printed(kinds) == {i \in DOMAIN output : output[i].line \in kinds}

\* The lines that report a failure of the pass.
FailureLines ==
    {"store_error", "size", "chunk_error", "unaccounted", "duplicative", "mismatch"}

\* C14: the final line "Depot files match SKU!" is printed only when no
\* line of the pass reported a failure: a chunkstore that did not open, a
\* CSD of another size, a chunk that failed, bytes unaccounted for or read
\* twice, a chunk count other than the manifest's.
C14_MatchOnlyWhenNothingFailed ==
    Printed({"match"}) # {} => Printed(FailureLines) = {}

RECURSIVE SumCompressed(_, _)
SumCompressed(cs, n) ==
    IF n = 0 THEN 0 ELSE SumCompressed(cs, n - 1) + cs[n].compressed_length

Failures(results) == {i \in DOMAIN results : ~results[i]}

RECURSIVE SumFailures(_, _)
SumFailures(ts, n) ==
    IF n = 0 THEN 0
    ELSE SumFailures(ts, n - 1) + Cardinality(Failures(ts[n].results))

\* C15: in verify_chunkstore a chunk_data that fails prints its error and
\* makes the result invalid, and the loop goes on: a task that has ended
\* has passed every chunk of the CSM to chunk_data, and bytes_read is the
\* sum of the compressed_length of the chunks passed, failed ones included.
C15_FailedChunkDoesNotStopScan ==
    verifier.pc = "join" =>
        /\ \A k \in DOMAIN tasks :
               LET t == tasks[k]
               IN  t.opened =>
                      /\ Len(t.results) = t.next - 1
                      /\ t.bytes_read = SumCompressed(t.store.csm.chunks, t.next - 1)
                      /\ Failures(t.results) # {} => ~t.valid
                      /\ t.pc = "done" =>
                             /\ t.next = Len(t.store.csm.chunks) + 1
                             /\ Failures(t.results) # {} => ~t.result.some
        /\ verifier.i = 1 =>
               Cardinality(Printed({"chunk_error"})) = SumFailures(tasks, Len(tasks))

\* A task has ended whose first chunk failed and whose second chunk was
\* read and verified after it.
C15_Witness ==
    /\ verifier.pc = "join"
    /\ \E k \in DOMAIN tasks :
          /\ tasks[k].pc = "done"
          /\ tasks[k].results = <<FALSE, TRUE>>
          /\ tasks[k].bytes_read = 6
    /\ Printed({"chunk_error"}) # {}

\* C16: when the pass over a SKU that was parsed has ended, the line
\* "Verifying depot" was printed for every depot of the SKU.
C16_EveryDepotScanned ==
    (verifier.pc \in {"done", "failed"} /\ backup.sku_ok) =>
        \A i \in DOMAIN backup.sku.depots :
            \E j \in DOMAIN output :
                output[j] = [line |-> "verifying", depot |-> backup.sku.depots[i]]

\* The chunkstore file opens, its CSD has the length of the SKU, every chunk
\* of its CSM verifies, and the chunks account for every byte of the CSD.
ValidStore(file, length) ==
    /\ ChunkStoreOpen(file).ok
    /\ LET cs == ChunkStoreOpen(file).store
       IN  /\ cs.csd_len = length
           /\ \A i \in DOMAIN cs.csm.chunks : ChunkData(cs, cs.csm.chunks[i].sha).ok
           /\ SumCompressed(cs.csm.chunks, Len(cs.csm.chunks)) = length

\* A valid backup: the SKU parses and lists chunkstores for every depot,
\* every chunkstore is valid, and the manifests consulted can be read and
\* belong to their depot.
ValidBackup(b) ==
    /\ b.sku_ok
    /\ \A i \in DOMAIN b.sku.depots :
          LET d == b.sku.depots[i]
          IN  /\ d \in DOMAIN b.sku.chunkstores
              /\ \A k \in DOMAIN b.sku.chunkstores[d] :
                     ValidStore(b.files[<<d, b.sku.chunkstores[d][k].index>>],
                                b.sku.chunkstores[d][k].length)
              /\ (b.manifest_dir /\ d \in DOMAIN b.sku.manifests) =>
                     /\ b.manifest_files[d].read_ok
                     /\ b.manifest_files[d].depot_id = d

RECURSIVE ChunksOnDisk(_, _, _)
ChunksOnDisk(b, d, n) ==
    IF n = 0 THEN 0
    ELSE ChunksOnDisk(b, d, n - 1)
            + Len(b.files[<<d, b.sku.chunkstores[d][n].index>>].csm.chunks)

\* The lines of a valid backup: for each depot its heading, the warning of
\* encrypted file names and the line of a chunk count other than the
\* manifest's; then the final line.
RECURSIVE DepotLines(_, _)
DepotLines(b, n) ==
    IF n = 0 THEN <<>>
    ELSE LET d == b.sku.depots[n]
             consulted == b.manifest_dir /\ d \in DOMAIN b.sku.manifests
             on_disk == ChunksOnDisk(b, d, Len(b.sku.chunkstores[d]))
         IN  DepotLines(b, n - 1)
                 \o <<[line |-> "verifying", depot |-> d]>>
                 \o (IF consulted /\ b.manifest_files[d].filenames_encrypted
                     THEN <<[line |-> "encrypted", depot |-> d]>> ELSE <<>>)
                 \o (IF consulted /\ b.manifest_files[d].unique_chunks # on_disk
                     THEN <<[line |-> "mismatch", depot |-> d,
                             unique_chunks |-> b.manifest_files[d].unique_chunks,
                             depot_chunks |-> on_disk]>>
                     ELSE <<>>)

ExpectedOutput(b) ==
    <<[line |-> "blank"], [line |-> "game"]>>
        \o DepotLines(b, Len(b.sku.depots)) \o <<[line |-> "match"]>>

\* C17: on a valid backup the lines printed are a function of the backup:
\* at every moment of every interleaving of the chunkstore tasks the output
\* is the beginning of the same sequence of lines, and all of it at the end.
C17_OutputIsDeterministic ==
    ValidBackup(backup) =>
        /\ verifier.pc # "failed"
        /\ Len(output) <= Len(ExpectedOutput(backup))
        /\ output = SubSeq(ExpectedOutput(backup), 1, Len(output))
        /\ verifier.pc = "done" => output = ExpectedOutput(backup)

\* On a valid backup, the second task of a depot has ended before the first
\* one has opened its chunkstore.
C17_Witness ==
    /\ ValidBackup(backup)
    /\ verifier.pc = "join"
    /\ Len(tasks) >= 2
    /\ tasks[1].pc = "open"
    /\ tasks[Len(tasks)].pc = "done"
    /\ tasks[Len(tasks)].result.some

----------------------------------------------------------------------------
(* The depot manifest file: Manifest::write and Manifest::read.            *)

PROTOBUF_PAYLOAD_MAGIC == 1911953360
PROTOBUF_METADATA_MAGIC == 524817086
PROTOBUF_SIGNATURE_MAGIC == 461486103
PROTOBUF_ENDOFMANIFEST_MAGIC == 851711403

\* The four bytes of n, most significant first.
U32ToBe(n) ==
    <<(n \div 16777216) % 256, (n \div 65536) % 256, (n \div 256) % 256, n % 256>>

\* u32::to_le_bytes.
U32ToLe(n) ==
    <<n % 256, (n \div 256) % 256, (n \div 65536) % 256, (n \div 16777216) % 256>>

\* u32::from_le_bytes.
U32FromLe(b) == b[1] + 256 * b[2] + 65536 * b[3] + 16777216 * b[4]

\* Read::read_exact of n bytes from the bytes after the first pos ones.
ReadExact(data, pos, n) ==
    IF pos + n <= Len(data)
    THEN [ok |-> TRUE, buf |-> SubSeq(data, pos + 1, pos + n), pos |-> pos + n]
    ELSE [ok |-> FALSE, buf |-> <<>>, pos |-> pos]

\* The closure read_u32 of Manifest::read.
ReadU32(data, pos) ==
    LET r == ReadExact(data, pos, 4)
    IN  IF r.ok THEN [ok |-> TRUE, value |-> U32FromLe(r.buf), pos |-> r.pos]
        ELSE [ok |-> FALSE, value |-> 0, pos |-> pos]

\* The closure read_vec of Manifest::read.
ReadVec(data, pos) ==
    LET len == ReadU32(data, pos)
    IN  IF len.ok THEN ReadExact(data, len.pos, len.value)
        ELSE [ok |-> FALSE, buf |-> <<>>, pos |-> pos]

\* The closure write_vec of Manifest::write.
WriteVec(v) == U32ToLe(Len(v)) \o v

(* The protobuf wire format of the three messages, as far as the manifests
   here use it: a key byte (field number * 8 + wire type), then a varint
   (wire type 0) or a varint length and that many bytes (wire type 2).     *)

RECURSIVE Varint(_)
Varint(n) == IF n < 128 THEN <<n>> ELSE <<128 + (n % 128)>> \o Varint(n \div 128)

RECURSIVE ReadVarint(_, _)
ReadVarint(data, pos) ==
    IF pos + 1 > Len(data) THEN [ok |-> FALSE, value |-> 0, pos |-> pos]
    ELSE IF data[pos + 1] < 128
         THEN [ok |-> TRUE, value |-> data[pos + 1], pos |-> pos + 1]
         ELSE LET rest == ReadVarint(data, pos + 1)
              IN  [ok |-> rest.ok,
                   value |-> (data[pos + 1] - 128) + 128 * rest.value,
                   pos |-> rest.pos]

\* The fields of a message on the wire, in order: [num, wt, value].
RECURSIVE WireFields(_, _)
WireFields(data, pos) ==
    IF pos = Len(data) THEN [ok |-> TRUE, fields |-> <<>>]
    ELSE LET key == ReadVarint(data, pos)
             num == key.value \div 8
             wt == key.value % 8
         IN  IF ~key.ok \/ num = 0 \/ wt \notin {0, 2}
             THEN [ok |-> FALSE, fields |-> <<>>]
             ELSE LET v == ReadVarint(data, key.pos)
                      body == IF wt = 0 THEN [ok |-> v.ok, buf |-> <<>>, pos |-> v.pos]
                              ELSE IF v.ok THEN ReadExact(data, v.pos, v.value)
                              ELSE [ok |-> FALSE, buf |-> <<>>, pos |-> pos]
                  IN  IF ~body.ok THEN [ok |-> FALSE, fields |-> <<>>]
                      ELSE LET rest == WireFields(data, body.pos)
                           IN  [ok |-> rest.ok,
                                fields |-> <<[num |-> num, wt |-> wt,
                                              value |-> IF wt = 0 THEN v.value
                                                        ELSE body.buf]>>
                                           \o rest.fields]

WireField(num, wt, value) ==
    Varint(num * 8 + wt)
        \o (IF wt = 0 THEN Varint(value) ELSE Varint(Len(value)) \o value)

RECURSIVE WireUnknown(_)
WireUnknown(fs) ==
    IF fs = <<>> THEN <<>>
    ELSE WireField(fs[1].num, fs[1].wt, fs[1].value) \o WireUnknown(Tail(fs))

\* An optional field is <<>> when absent and <<v>> when present.

\* ContentManifestPayload.FileMapping: optional string filename = 1.
MappingToBytes(m) ==
    (IF m.filename = <<>> THEN <<>> ELSE WireField(1, 2, m.filename[1]))
        \o WireUnknown(m.unknown)

RECURSIVE MergeMapping(_, _)
MergeMapping(m, fs) ==
    IF fs = <<>> THEN [ok |-> TRUE, msg |-> m]
    ELSE LET f == fs[1]
         IN  IF f.num = 1
             THEN IF f.wt # 2 THEN [ok |-> FALSE, msg |-> m]
                  ELSE MergeMapping([m EXCEPT !.filename = <<f.value>>], Tail(fs))
             ELSE MergeMapping([m EXCEPT !.unknown = Append(@, f)], Tail(fs))

MappingFromBytes(buf) ==
    LET w == WireFields(buf, 0)
        empty == [filename |-> <<>>, unknown |-> <<>>]
    IN  IF w.ok THEN MergeMapping(empty, w.fields) ELSE [ok |-> FALSE, msg |-> empty]

\* ContentManifestPayload: repeated FileMapping mappings = 1.
RECURSIVE MappingsToBytes(_)
MappingsToBytes(ms) ==
    IF ms = <<>> THEN <<>>
    ELSE WireField(1, 2, MappingToBytes(ms[1])) \o MappingsToBytes(Tail(ms))

PayloadToBytes(p) == MappingsToBytes(p.mappings) \o WireUnknown(p.unknown)

RECURSIVE MergePayload(_, _)
MergePayload(p, fs) ==
    IF fs = <<>> THEN [ok |-> TRUE, msg |-> p]
    ELSE LET f == fs[1]
         IN  IF f.num = 1
             THEN IF f.wt # 2 THEN [ok |-> FALSE, msg |-> p]
                  ELSE LET m == MappingFromBytes(f.value)
                       IN  IF ~m.ok THEN [ok |-> FALSE, msg |-> p]
                           ELSE MergePayload([p EXCEPT !.mappings = Append(@, m.msg)],
                                             Tail(fs))
             ELSE MergePayload([p EXCEPT !.unknown = Append(@, f)], Tail(fs))

PayloadFromBytes(buf) ==
    LET w == WireFields(buf, 0)
        empty == [mappings |-> <<>>, unknown |-> <<>>]
    IN  IF w.ok THEN MergePayload(empty, w.fields) ELSE [ok |-> FALSE, msg |-> empty]

\* ContentManifestMetadata: optional uint32 depot_id = 1,
\* optional bool filenames_encrypted = 4.
MetadataToBytes(m) ==
    (IF m.depot_id = <<>> THEN <<>> ELSE WireField(1, 0, m.depot_id[1]))
        \o (IF m.filenames_encrypted = <<>> THEN <<>>
            ELSE WireField(4, 0, IF m.filenames_encrypted[1] THEN 1 ELSE 0))
        \o WireUnknown(m.unknown)

RECURSIVE MergeMetadata(_, _)
MergeMetadata(m, fs) ==
    IF fs = <<>> THEN [ok |-> TRUE, msg |-> m]
    ELSE LET f == fs[1]
         IN  IF f.num \in {1, 4}
             THEN IF f.wt # 0 THEN [ok |-> FALSE, msg |-> m]
                  ELSE IF f.num = 1
                  THEN MergeMetadata([m EXCEPT !.depot_id = <<f.value>>], Tail(fs))
                  ELSE MergeMetadata([m EXCEPT !.filenames_encrypted = <<f.value # 0>>],
                                     Tail(fs))
             ELSE MergeMetadata([m EXCEPT !.unknown = Append(@, f)], Tail(fs))

MetadataFromBytes(buf) ==
    LET w == WireFields(buf, 0)
        empty == [depot_id |-> <<>>, filenames_encrypted |-> <<>>, unknown |-> <<>>]
    IN  IF w.ok THEN MergeMetadata(empty, w.fields) ELSE [ok |-> FALSE, msg |-> empty]

\* ContentManifestSignature: optional bytes signature = 1.
SignatureToBytes(g) ==
    (IF g.signature = <<>> THEN <<>> ELSE WireField(1, 2, g.signature[1]))
        \o WireUnknown(g.unknown)

RECURSIVE MergeSignature(_, _)
MergeSignature(g, fs) ==
    IF fs = <<>> THEN [ok |-> TRUE, msg |-> g]
    ELSE LET f == fs[1]
         IN  IF f.num = 1
             THEN IF f.wt # 2 THEN [ok |-> FALSE, msg |-> g]
                  ELSE MergeSignature([g EXCEPT !.signature = <<f.value>>], Tail(fs))
             ELSE MergeSignature([g EXCEPT !.unknown = Append(@, f)], Tail(fs))

SignatureFromBytes(buf) ==
    LET w == WireFields(buf, 0)
        empty == [signature |-> <<>>, unknown |-> <<>>]
    IN  IF w.ok THEN MergeSignature(empty, w.fields) ELSE [ok |-> FALSE, msg |-> empty]

\* Manifest::write: the bytes the writer has received when it returns.
ManifestWrite(m) ==
    U32ToLe(PROTOBUF_PAYLOAD_MAGIC) \o WriteVec(PayloadToBytes(m.payload))
        \o U32ToLe(PROTOBUF_METADATA_MAGIC) \o WriteVec(MetadataToBytes(m.metadata))
        \o U32ToLe(PROTOBUF_SIGNATURE_MAGIC) \o WriteVec(SignatureToBytes(m.signature))
        \o U32ToLe(PROTOBUF_ENDOFMANIFEST_MAGIC)

MalformedManifest(err) == [done |-> TRUE, ok |-> FALSE, err |-> err]

\* The loop of Manifest::read from the bytes after the first pos ones, with
\* the three Options in acc (<<>> is None), and what follows the loop.
RECURSIVE ReadLoop(_, _, _)
ReadLoop(data, pos, acc) ==
    LET tag == ReadU32(data, pos)
    IN  IF ~tag.ok THEN MalformedManifest("UnexpectedEof")
        ELSE IF tag.value = PROTOBUF_ENDOFMANIFEST_MAGIC
        THEN IF acc.payload # <<>> /\ acc.metadata # <<>> /\ acc.signature # <<>>
             THEN [done |-> TRUE, ok |-> TRUE, err |-> "",
                   payload |-> acc.payload[1],
                   metadata |-> acc.metadata[1],
                   signature |-> acc.signature[1]]
             ELSE MalformedManifest("Missing manifest components")
        ELSE IF tag.value \notin {PROTOBUF_PAYLOAD_MAGIC, PROTOBUF_METADATA_MAGIC,
                                  PROTOBUF_SIGNATURE_MAGIC}
        THEN MalformedManifest("Unrecognized magic value")
        ELSE LET v == ReadVec(data, tag.pos)
                 msg == IF tag.value = PROTOBUF_PAYLOAD_MAGIC
                        THEN PayloadFromBytes(v.buf)
                        ELSE IF tag.value = PROTOBUF_METADATA_MAGIC
                        THEN MetadataFromBytes(v.buf)
                        ELSE SignatureFromBytes(v.buf)
             IN  IF ~v.ok THEN MalformedManifest("UnexpectedEof")
                 ELSE IF ~msg.ok THEN MalformedManifest("protobuf")
                 ELSE IF tag.value = PROTOBUF_PAYLOAD_MAGIC
                 THEN ReadLoop(data, v.pos, [acc EXCEPT !.payload = <<msg.msg>>])
                 ELSE IF tag.value = PROTOBUF_METADATA_MAGIC
                 THEN ReadLoop(data, v.pos, [acc EXCEPT !.metadata = <<msg.msg>>])
                 ELSE ReadLoop(data, v.pos, [acc EXCEPT !.signature = <<msg.msg>>])

\* Manifest::read.
ManifestRead(data) ==
    ReadLoop(data, 0, [payload |-> <<>>, metadata |-> <<>>, signature |-> <<>>])

\* m.write(file).
WriteManifest ==
    /\ manifest.some
    /\ stream = <<>>
    /\ ~parsed.done
    /\ stream' = ManifestWrite(manifest)
    /\ UNCHANGED <<manifest, parsed>>
    /\ UNCHANGED <<backup, phase, chunkstores, reply>>
    /\ UNCHANGED fsVars
    /\ UNCHANGED lockVars
    /\ UNCHANGED handleVars
    /\ UNCHANGED verifyVars

\* Manifest::read(file).
ReadManifest ==
    /\ ~parsed.done
    /\ manifest.some => stream # <<>>
    /\ parsed' = ManifestRead(stream)
    /\ UNCHANGED <<manifest, stream>>
    /\ UNCHANGED <<backup, phase, chunkstores, reply>>
    /\ UNCHANGED fsVars
    /\ UNCHANGED lockVars
    /\ UNCHANGED handleVars
    /\ UNCHANGED verifyVars

(* The manifests written and the files read.                               *)

MaxWritten == 2    \* mappings of a manifest that is written
MaxRecords == 4    \* records of a file that is read
MaxCut == 9        \* bytes missing at the end of a file that is read

FileMappings ==
    {[filename |-> f, unknown |-> <<>>] : f \in {<<>>, <<<<>>>>, <<<<97>>>>}}

Manifests ==
    {[some |-> TRUE,
      payload |-> [mappings |-> ms, unknown |-> <<>>],
      metadata |-> [depot_id |-> d, filenames_encrypted |-> e, unknown |-> <<>>],
      signature |-> [signature |-> g, unknown |-> <<>>]] :
        ms \in UNION {[1..n -> FileMappings] : n \in 0..MaxWritten},
        d \in {<<>>, <<0>>, <<1>>, <<200>>},
        e \in {<<>>, <<TRUE>>, <<FALSE>>},
        g \in {<<>>, <<<<>>>>, <<<<7, 9>>>>}}

Record(magic, body) == U32ToLe(magic) \o WriteVec(body)

\* The pieces of a file: two payload records, a metadata and a signature
\* record, a tag that is none of the four, and a payload record whose bytes
\* are no message (a field of five bytes, of which none is there).
Pieces ==
    {Record(PROTOBUF_PAYLOAD_MAGIC, <<>>),
     Record(PROTOBUF_PAYLOAD_MAGIC, <<10, 3, 10, 1, 97>>),
     Record(PROTOBUF_METADATA_MAGIC, <<8, 1, 32, 0>>),
     Record(PROTOBUF_SIGNATURE_MAGIC, <<10, 2, 7, 9>>),
     U32ToLe(7),
     Record(PROTOBUF_PAYLOAD_MAGIC, <<10, 5>>)}

RECURSIVE Concat(_, _)
Concat(ps, n) == IF n = 0 THEN <<>> ELSE Concat(ps, n - 1) \o ps[n]

InitManifest ==
    /\ backup = Backup(<<>>, <<>>)
    /\ phase = "unmounted"
    /\ inodes = <<>>
    /\ dir_map = EmptyMap
    /\ path_map = EmptyMap
    /\ chunks = EmptyMap
    /\ chunkstores = <<>>
    /\ blocks = 0
    /\ open_files = EmptyMap
    /\ open_dirs = EmptyMap
    /\ next_file_fh = 0
    /\ next_dir_fh = 0
    /\ reply = [op |-> "none"]
    /\ live_files = {}
    /\ live_dirs = {}
    /\ collided = FALSE
    /\ verifier = [pc |-> "idle"]
    /\ tasks = <<>>
    /\ output = <<>>
    /\ parsed = [done |-> FALSE]
    /\ locks = <<>>
    /\ readers = EmptyMap
    /\ \/ /\ manifest \in Manifests
          /\ stream = <<>>
       \/ /\ manifest = [some |-> FALSE]
          /\ \E n \in 0..MaxRecords : \E ps \in [1..n -> Pieces] :
             \E end \in BOOLEAN, cut \in 0..MaxCut :
                LET whole == Concat(ps, n)
                                \o (IF end THEN U32ToLe(PROTOBUF_ENDOFMANIFEST_MAGIC)
                                    ELSE <<>>)
                IN  /\ cut <= Len(whole)
                    /\ stream = SubSeq(whole, 1, Len(whole) - cut)

NextManifest ==
    \/ WriteManifest
    \/ ReadManifest

SpecManifest == InitManifest /\ [][NextManifest]_vars

----------------------------------------------------------------------------
(* Properties of the manifest file.                                        *)

\* C18: reading what write wrote gives the payload, metadata and signature
\* written; the file is the payload record, the metadata record, the
\* signature record and the end marker, each record being its tag, the
\* length of its bytes as four bytes least significant first, and the bytes.
C18_WriteThenRead ==
    (manifest.some /\ stream # <<>>) =>
        /\ LET p == PayloadToBytes(manifest.payload)
               m == MetadataToBytes(manifest.metadata)
               g == SignatureToBytes(manifest.signature)
               LeLength(b) == <<Len(b) % 256, (Len(b) \div 256) % 256, 0, 0>>
           IN  stream = <<208, 23, 246, 113>> \o LeLength(p) \o p
                            \o <<190, 18, 72, 31>> \o LeLength(m) \o m
                            \o <<23, 184, 129, 27>> \o LeLength(g) \o g
                            \o <<171, 21, 196, 50>>
        /\ parsed.done =>
              /\ parsed.ok
              /\ parsed.payload = manifest.payload
              /\ parsed.metadata = manifest.metadata
              /\ parsed.signature = manifest.signature

\* A manifest of two mappings, a depot id of two varint bytes and a
\* signature has been written and read back.
C18_Witness ==
    /\ manifest.some
    /\ Len(manifest.payload.mappings) = 2
    /\ manifest.metadata.depot_id = <<200>>
    /\ manifest.signature.signature # <<>>
    /\ stream # <<>>
    /\ parsed.done

\* The tags of the records of a file up to the end marker, whatever the
\* records hold, or up to a tag that is none of the four: complete is
\* whether the end marker was found.
RECURSIVE Tags(_, _)
Tags(data, pos) ==
    LET tag == ReadU32(data, pos)
    IN  IF ~tag.ok THEN [complete |-> FALSE, tags |-> <<>>]
        ELSE IF tag.value = PROTOBUF_ENDOFMANIFEST_MAGIC
        THEN [complete |-> TRUE, tags |-> <<>>]
        ELSE IF tag.value \notin {PROTOBUF_PAYLOAD_MAGIC, PROTOBUF_METADATA_MAGIC,
                                  PROTOBUF_SIGNATURE_MAGIC}
        THEN [complete |-> FALSE, tags |-> <<tag.value>>]
        ELSE LET v == ReadVec(data, tag.pos)
             IN  IF ~v.ok THEN [complete |-> FALSE, tags |-> <<tag.value>>]
                 ELSE LET rest == Tags(data, v.pos)
                      IN  [complete |-> rest.complete,
                           tags |-> <<tag.value>> \o rest.tags]

Occurrences(tags, magic) == Cardinality({i \in DOMAIN tags : tags[i] = magic})

\* C19: read succeeds only on a file in which, before the end marker, the
\* payload, the metadata and the signature record each occur exactly once
\* and no other tag occurs.
C19_EachRecordOnce ==
    (parsed.done /\ parsed.ok) =>
        LET t == Tags(stream, 0)
        IN  /\ t.complete
            /\ Occurrences(t.tags, PROTOBUF_PAYLOAD_MAGIC) = 1
            /\ Occurrences(t.tags, PROTOBUF_METADATA_MAGIC) = 1
            /\ Occurrences(t.tags, PROTOBUF_SIGNATURE_MAGIC) = 1
            /\ Len(t.tags) = 3

----------------------------------------------------------------------------
(* The frame of the kernel's callbacks.                                    *)

\* A ChunkStore as ChunkStore::open left it: nothing read yet.
Rewound(cs) == [cs EXCEPT !.position = 0, !.cursor = 0, !.buffer = <<>>]

\* C20: whatever callbacks have run since the mount, the inode table, the
\* directory map, the chunk router (and the path index and block count) are
\* what prepare returned, and every ChunkStore differs from the one prepare
\* opened in its position, cursor and buffer at most.
C20_AssemblyIsImmutable ==
    (phase \in {"mounted", "panicked"} /\ Prepare(backup).status = "mounted") =>
        LET r == Prepare(backup)
        IN  /\ inodes = r.inodes
            /\ dir_map = r.dir_map
            /\ chunks = r.chunks
            /\ path_map = r.path_map
            /\ blocks = r.blocks
            /\ DOMAIN chunkstores = DOMAIN r.chunkstores
            /\ \A i \in DOMAIN chunkstores : Rewound(chunkstores[i]) = r.chunkstores[i]

\* A read has failed with a file and a directory handle open, after reads
\* that moved the cursor of a ChunkStore and both handle counters.
C20_Witness ==
    /\ phase = "mounted"
    /\ reply.op = "read"
    /\ reply.kind = "error"
    /\ open_files # EmptyMap
    /\ open_dirs # EmptyMap
    /\ next_file_fh > 0
    /\ next_dir_fh > 0
    /\ \E i \in DOMAIN chunkstores : chunkstores[i].cursor > 0

----------------------------------------------------------------------------
(* The Dokan handler create_file of BackupFs.                              *)

\* Access rights, dispositions and options of a create request.
FILE_READ_DATA == 1
FILE_WRITE_DATA == 2
FILE_APPEND_DATA == 4
FILE_WRITE_EA == 16
FILE_READ_ATTRIBUTES == 128
FILE_WRITE_ATTRIBUTES == 256
GENERIC_WRITE == 1073741824
FILE_SUPERSEDE == 0
FILE_OPEN == 1
FILE_CREATE == 2
FILE_DIRECTORY_FILE == 1
FILE_NON_DIRECTORY_FILE == 64

\* a & b on unsigned integers.
RECURSIVE BitAnd(_, _)
BitAnd(a, b) ==
    IF a = 0 \/ b = 0 THEN 0
    ELSE (a % 2) * (b % 2) + 2 * BitAnd(a \div 2, b \div 2)

\* The rights whose request create_file rejects, without GENERIC_WRITE.
WriteAccessNarrow ==
    FILE_WRITE_DATA + FILE_WRITE_ATTRIBUTES + FILE_WRITE_EA + FILE_APPEND_DATA

\* The rights whose request create_file rejects.
WriteAccess ==
    GENERIC_WRITE + FILE_WRITE_DATA + FILE_WRITE_ATTRIBUTES + FILE_WRITE_EA
        + FILE_APPEND_DATA

\* The key of a path in FsInfo.path_map: a backslash, then the path as it is
\* displayed (its components with backslashes between them).
WindowsKey(path) == IF path = <<>> THEN <<"\\">> ELSE <<"\\">> \o Join(path, "\\")

\* FsInfo::prepare: the path index under the keys Dokan uses (the paths of
\* the backups here have different keys).
WindowsPathMap(pm) ==
    [k \in {WindowsKey(p) : p \in DOMAIN pm} |->
        pm[CHOOSE p \in DOMAIN pm : WindowsKey(p) = k]]

\* create_file.
CreateFileReply(file_name, desired_access, create_disposition, create_options) ==
    LET args == [op |-> "create_file", file_name |-> file_name,
                 desired_access |-> desired_access,
                 create_disposition |-> create_disposition,
                 create_options |-> create_options]
        err(status) == args @@ [kind |-> "error", status |-> status]
        wpm == WindowsPathMap(path_map)
    IN  IF BitAnd(desired_access, WriteAccess) > 0
        THEN err("STATUS_MEDIA_WRITE_PROTECTED")
        ELSE IF create_disposition = FILE_OPEN
        THEN IF file_name \notin DOMAIN wpm
             THEN err("STATUS_OBJECT_NAME_NOT_FOUND")
             ELSE LET ino == wpm[file_name]
                  IN  IF ino # ROOT_INODE /\ ~GetNode(ino).some
                      THEN args @@ [kind |-> "panic"]
                      ELSE
                      LET is_dir == IF ino = ROOT_INODE THEN TRUE
                                    ELSE NodeKind(GetNode(ino).node) = "Directory"
                      IN  IF BitAnd(create_options, FILE_DIRECTORY_FILE) > 0 /\ ~is_dir
                          THEN err("STATUS_NOT_A_DIRECTORY")
                          ELSE IF BitAnd(create_options, FILE_NON_DIRECTORY_FILE) > 0
                                  /\ is_dir
                          THEN err("STATUS_FILE_IS_A_DIRECTORY")
                          ELSE args @@ [kind |-> "created", ino |-> ino,
                                        is_dir |-> is_dir, new_file_created |-> FALSE]
        ELSE err("STATUS_INVALID_PARAMETER")

CreateFile(file_name, desired_access, create_disposition, create_options) ==
    /\ phase = "mounted"
    /\ Replied(CreateFileReply(file_name, desired_access, create_disposition,
                               create_options))
    /\ UNCHANGED <<backup, chunkstores>>
    /\ UNCHANGED fsVars
    /\ UNCHANGED lockVars
    /\ UNCHANGED verifyVars
    /\ UNCHANGED codecVars
    /\ UNCHANGED handleVars

\* The requests: no right, each right alone, each write right with a read
\* right, and all rights; three dispositions; the four combinations of the
\* two options; the names of the root, of a directory, of a file and of
\* nothing.
AccessBits ==
    {FILE_READ_DATA, FILE_WRITE_DATA, FILE_APPEND_DATA, FILE_WRITE_EA,
     FILE_READ_ATTRIBUTES, FILE_WRITE_ATTRIBUTES, GENERIC_WRITE}

RECURSIVE SumOf(_)
SumOf(bits) ==
    IF bits = {} THEN 0
    ELSE LET b == CHOOSE x \in bits : TRUE IN b + SumOf(bits \ {b})

AccessArgs ==
    {0, SumOf(AccessBits)} \cup AccessBits
        \cup {FILE_READ_DATA + w : w \in AccessBits \ {FILE_READ_DATA, FILE_READ_ATTRIBUTES}}

DispositionArgs == {FILE_SUPERSEDE, FILE_OPEN, FILE_CREATE}

OptionArgs ==
    {0, FILE_DIRECTORY_FILE, FILE_NON_DIRECTORY_FILE,
     FILE_DIRECTORY_FILE + FILE_NON_DIRECTORY_FILE}

FileNameArgs ==
    {<<"\\">>, <<"\\", "a">>, <<"\\", "b", "\\", "a">>, <<"\\", "c">>}

NextWindows ==
    \/ PrepareFs
    \/ \E file_name \in FileNameArgs, desired_access \in AccessArgs,
          create_disposition \in DispositionArgs, create_options \in OptionArgs :
          CreateFile(file_name, desired_access, create_disposition, create_options)

SpecWindows == Init /\ [][NextWindows]_vars

\* C21: a create request that asks for any of the five write rights gets
\* STATUS_MEDIA_WRITE_PROTECTED, whatever its name, disposition and options;
\* one that asks for none of them and whose disposition is not FILE_OPEN gets
\* STATUS_INVALID_PARAMETER.
C21_WritesAreRejected ==
    reply.op = "create_file" =>
        LET asks(right) == (reply.desired_access \div right) % 2 = 1
            writes == \/ asks(GENERIC_WRITE) \/ asks(FILE_WRITE_DATA)
                      \/ asks(FILE_WRITE_ATTRIBUTES) \/ asks(FILE_WRITE_EA)
                      \/ asks(FILE_APPEND_DATA)
        IN  /\ writes => /\ reply.kind = "error"
                         /\ reply.status = "STATUS_MEDIA_WRITE_PROTECTED"
            /\ (~writes /\ reply.create_disposition # FILE_OPEN) =>
                    /\ reply.kind = "error"
                    /\ reply.status = "STATUS_INVALID_PARAMETER"

\* A request to open a name that no node has, asking to read and, by
\* GENERIC_WRITE alone, to write, has been answered.
C21_Witness ==
    /\ reply.op = "create_file"
    /\ reply.desired_access = GENERIC_WRITE + FILE_READ_DATA
    /\ reply.create_disposition = FILE_OPEN
    /\ reply.file_name = <<"\\", "c">>
    /\ reply.kind = "error"

----------------------------------------------------------------------------
(* More properties of the FUSE callbacks.                                  *)

\* C22: a read through a live handle of a regular file gives to chunk_data
\* only chunks whose range meets the range read: chunk_start < read_end and
\* read_start < chunk_end.
C22_OnlyIntersectingFetched ==
    phase = "mounted" =>
        \A ino \in RegularFiles : \A fh \in LiveFor(ino) :
        \A o \in 0..NodeSize(GetNode(ino).node), L \in ReadSizeArgs :
            LET cs == GetNode(ino).node.file_mapping.chunks
                r == ReadOutcome(ino, fh, o, L).reply
                read_end == o + Min(L, NodeSize(GetNode(ino).node) - o)
            IN  \A k \in DOMAIN r.fetched :
                    /\ cs[r.fetched[k]].offset < read_end
                    /\ o < cs[r.fetched[k]].offset + cs[r.fetched[k]].cb_original

\* C23: whatever inode, handle, offset and length read is called with, it
\* ends with a reply of data or of an error code.
C23_ReadAlwaysReplies ==
    reply.op = "read" => reply.kind \in {"data", "error"}

\* C24: lookup of a name that no child of a directory inode has (the root,
\* a synthetic node, or a real node with flag 0x40) replies ENOENT.
C24_UnknownNameIsNoEntry ==
    phase = "mounted" =>
        \A d \in {ROOT_INODE} \cup NodeInos : \A name \in NameArgs :
            (/\ IsDirectoryInode(d)
             /\ \A c \in Children(d) :
                    GetNode(c).some => NodeName(GetNode(c).node) # name)
                => LookupReply(d, name) = Error("lookup", "ENOENT")

\* C25: for an inode that is neither the root nor a position of the inode
\* table, lookup below it, getattr without a handle, and read through a
\* handle opened for it reply EINVAL.
C25_UnknownInodeIsInvalid ==
    phase = "mounted" =>
        \A ino \in InoArgs :
            (ino # ROOT_INODE /\ ~GetNode(ino).some) =>
                /\ \A name \in NameArgs :
                       LookupReply(ino, name) = Error("lookup", "EINVAL")
                /\ GetattrReply(ino, <<>>) = Error("getattr", "EINVAL")
                /\ \A fh \in LiveFor(ino) :
                       ReadOutcome(ino, fh, 0, 1).reply = ReadError("EINVAL").reply

\* C26: getattr of an inode with a handle that open, or opendir, returned
\* for it and that has not been released replies the attributes of the
\* inode, whatever other handles are live.
C26_GetattrAcceptsLiveHandle ==
    (phase = "mounted" /\ ~collided) =>
        \A p \in live_files \cup live_dirs :
            (p[2] = ROOT_INODE \/ GetNode(p[2]).some) =>
                GetattrReply(p[2], <<p[1]>>) = GetattrReply(p[2], <<>>)

----------------------------------------------------------------------------
(* More properties of chunk_data and of the verifier.                      *)

\* C27: between the calls of chunk_data the position a ChunkStore records is
\* the read cursor of its CSD file.
C27_PositionIsCursor ==
    phase = "opened" => chunkstores[1].position = chunkstores[1].cursor

\* C28: a task that has gone through its chunkstore has read the CSD once
\* for each descriptor of the CSM, in the order of the CSM, each time at the
\* offset of the descriptor.
C28_EveryDescriptorIsRead ==
    \A k \in DOMAIN tasks :
        (tasks[k].pc = "done" /\ tasks[k].opened) =>
            tasks[k].reads = [i \in DOMAIN tasks[k].store.csm.chunks |->
                                 tasks[k].store.csm.chunks[i].offset]

----------------------------------------------------------------------------
(* Handles and names.                                                      *)

\* C29: release (releasedir) of a live handle with an inode other than the
\* one it was opened for replies EBADF and changes neither the handle table
\* nor the handle counter; the handle can then be released with its inode.
C29_MismatchedReleaseKeepsHandle ==
    [][\A ino \in InoArgs, fh \in FhArgs :
          /\ (fh \in DOMAIN open_files /\ open_files[fh] # ino /\ Release(ino, fh)) =>
                /\ reply' = Error("release", "EBADF")
                /\ open_files' = open_files
                /\ next_file_fh' = next_file_fh
                /\ ReleaseOutcome("release", open_files', open_files[fh], fh).reply.kind
                       = "ok"
          /\ (fh \in DOMAIN open_dirs /\ open_dirs[fh] # ino /\ Releasedir(ino, fh)) =>
                /\ reply' = Error("releasedir", "EBADF")
                /\ open_dirs' = open_dirs
                /\ next_dir_fh' = next_dir_fh
                /\ ReleaseOutcome("releasedir", open_dirs', open_dirs[fh], fh).reply.kind
                       = "ok"
      ]_vars

\* release has replied EBADF while every handle number is that of an open
\* file: the handle it was given was live, and is.
C29_Witness ==
    /\ phase = "mounted"
    /\ reply = Error("release", "EBADF")
    /\ DOMAIN open_files = FhArgs
    /\ ~collided

\* C30: after assembly no two children of a directory have the same name,
\* and lookup of the name of a child in its directory replies the
\* attributes of that child.
C30_LookupFindsTheChild ==
    phase = "mounted" =>
        \A d \in DOMAIN dir_map :
            /\ \A j \in DOMAIN dir_map[d], k \in DOMAIN dir_map[d] :
                   j # k => NodeName(GetNode(dir_map[d][j]).node)
                                # NodeName(GetNode(dir_map[d][k]).node)
            /\ \A k \in DOMAIN dir_map[d] :
                   LookupReply(d, NodeName(GetNode(dir_map[d][k]).node))
                       = [op |-> "lookup", kind |-> "entry",
                          attr |-> NodeAttr(GetNode(dir_map[d][k]).node, dir_map[d][k])]

\* Mounted with a directory below the root that has two children, one of
\* them with the name of the directory.
C30_Witness ==
    /\ phase = "mounted"
    /\ \E d \in DOMAIN dir_map \ {ROOT_INODE} :
          /\ Len(dir_map[d]) >= 2
          /\ \E k \in DOMAIN dir_map[d] :
                 NodeName(GetNode(dir_map[d][k]).node) = NodeName(GetNode(d).node)

----------------------------------------------------------------------------
(* More properties of the assembly.                                        *)

\* C31: after assembly every key of the directory map is inode 1 or the
\* inode of a node of the table, and every inode of every child list is in
\* 2 .. table length + 1: get_node finds a node for every child, and lookup
\* does not meet a child without a node.
C31_DirMapInodesExist ==
    phase = "mounted" =>
        \A d \in DOMAIN dir_map :
            /\ d = ROOT_INODE \/ d \in 2..(Len(inodes) + 1)
            /\ \A k \in DOMAIN dir_map[d] :
                   /\ dir_map[d][k] \in 2..(Len(inodes) + 1)
                   /\ GetNode(dir_map[d][k]).some
            /\ \A name \in NameArgs : LookupReply(d, name).kind # "panic"

\* Mounted with a synthetic node in the last position of the table that is
\* a key of the directory map and a child of another synthetic node.
C31_Witness ==
    /\ phase = "mounted"
    /\ Len(inodes) + 1 \in DOMAIN dir_map
    /\ ~inodes[Len(inodes)].real
    /\ \E d \in DOMAIN dir_map \ {ROOT_INODE} :
          ~GetNode(d).node.real /\ Len(inodes) + 1 \in Range(dir_map[d])

RealPositions == {i \in DOMAIN inodes : inodes[i].real}

RealPaths == {inodes[i].path : i \in RealPositions}

SyntheticInos == {ino \in NodeInos : ~GetNode(ino).node.real}

\* The non-empty proper ancestor paths of real nodes that no real node has.
MissingAncestors ==
    UNION {{SubSeq(p, 1, k) : k \in 1..(Len(p) - 1)} : p \in RealPaths} \ RealPaths

\* The paths of the file mappings of the backup.
MappedPaths ==
    UNION {{FilenameToPath(backup.manifests[i].mappings[j].filename) :
               j \in DOMAIN backup.manifests[i].mappings} :
           i \in DOMAIN backup.manifests}

\* C32: assembly creates one synthetic node for every non-empty proper
\* ancestor path of a real node that is not the path of a real node, and no
\* other; the real nodes come first in the table, one per path of a file
\* mapping in the order of the paths, and the synthetic nodes after them;
\* a synthetic node has the last component of its path as name and the
\* metadata of a real node below its path.
C32_SyntheticNodesAreTheMissingAncestors ==
    phase = "mounted" =>
        /\ {p \in DOMAIN path_map : path_map[p] \in SyntheticInos} = MissingAncestors
        /\ Cardinality(SyntheticInos) = Cardinality(MissingAncestors)
        /\ \A i \in DOMAIN inodes, j \in DOMAIN inodes :
               (i < j /\ inodes[j].real) =>
                   inodes[i].real /\ PathLess(inodes[i].path, inodes[j].path)
        /\ RealPaths = MappedPaths
        /\ \A i \in RealPositions : path_map[inodes[i].path] = i + 1
        /\ \A ino \in SyntheticInos : \A p \in DOMAIN path_map :
               path_map[p] = ino =>
                   /\ GetNode(ino).node.name = FileName(p)
                   /\ \E i \in RealPositions :
                          /\ Len(inodes[i].path) > Len(p)
                          /\ SubSeq(inodes[i].path, 1, Len(p)) = p
                          /\ inodes[i].metadata = GetNode(ino).node.metadata

\* Mounted with synthetic nodes of both manifests, and with a real node
\* whose path is an ancestor of another real node's.
C32_Witness ==
    /\ phase = "mounted"
    /\ \E s \in SyntheticInos, t \in SyntheticInos :
          GetNode(s).node.metadata # GetNode(t).node.metadata
    /\ \E i \in RealPositions, j \in RealPositions :
          /\ Len(inodes[j].path) > Len(inodes[i].path)
          /\ SubSeq(inodes[j].path, 1, Len(inodes[i].path)) = inodes[i].path

\* The places <<i, j>> (manifest, file mapping) of the backup that spell path.
MappingsOf(path) ==
    {ij \in UNION {{i} \X DOMAIN backup.manifests[i].mappings :
                      i \in DOMAIN backup.manifests} :
        FilenameToPath(backup.manifests[ij[1]].mappings[ij[2]].filename) = path}

\* The first of them in the order the manifests and their mappings are
\* iterated in.
FirstMappingOf(path) ==
    CHOOSE ij \in MappingsOf(path) :
        \A xy \in MappingsOf(path) :
            ij[1] < xy[1] \/ (ij[1] = xy[1] /\ ij[2] <= xy[2])

\* C33: of the file mappings with one path the node of the path is made of
\* the first in the iteration order of the manifests: it has that mapping's
\* flags, size and chunks and its manifest's metadata, and getattr of the
\* path's inode replies the attributes they give.
C33_FirstDuplicateSurvives ==
    phase = "mounted" =>
        \A path \in MappedPaths :
            LET ij == FirstMappingOf(path)
                m == backup.manifests[ij[1]].mappings[ij[2]]
                first == RealNode(backup.manifests[ij[1]].metadata, path,
                                  [flags |-> m.flags, size |-> m.size,
                                   chunks |-> m.chunks])
                ino == path_map[path]
            IN  /\ GetNode(ino).some
                /\ GetNode(ino).node = first
                /\ \A k \in NodeInos : GetNode(k).node.path = path => k = ino
                /\ GetattrReply(ino, <<>>)
                       = [op |-> "getattr", kind |-> "attr",
                          attr |-> NodeAttr(first, ino)]

\* Mounted from a backup that spells one path three times: as a file and
\* as a directory in one manifest, and in the other manifest.
C33_Witness ==
    /\ phase = "mounted"
    /\ \E path \in MappedPaths :
          /\ \E ij \in MappingsOf(path), xy \in MappingsOf(path) :
                /\ ij[1] = xy[1]
                /\ backup.manifests[ij[1]].mappings[ij[2]].flags
                       # backup.manifests[xy[1]].mappings[xy[2]].flags
          /\ \E ij \in MappingsOf(path) : ij[1] # FirstMappingOf(path)[1]

----------------------------------------------------------------------------
(* Directory listings.                                                     *)

\* The children of an inode in the order of its child list.
ChildList(d) == IF d \in DOMAIN dir_map THEN dir_map[d] ELSE <<>>

\* The entry readdir adds for the child at 0-based position p of d.
EntryAt(d, p) ==
    [ino |-> ChildList(d)[p + 1], offset |-> p + 1,
     kind |-> NodeKind(GetNode(ChildList(d)[p + 1]).node),
     name |-> NodeName(GetNode(ChildList(d)[p + 1]).node)]

\* What a reader receives that calls readdir from offset k and again with
\* the offset of the last entry it received, until a reply has no entry; a
\* reply that is no listing is received as an entry of kind "error".
RECURSIVE Enumerate(_, _, _, _)
Enumerate(d, h, k, room) ==
    LET r == ReaddirReply(d, h, k, room)
    IN  IF r.kind # "entries"
        THEN <<[ino |-> 0, offset |-> 0, kind |-> "error", name |-> <<>>]>>
        ELSE IF r.entries = <<>> THEN <<>>
        ELSE r.entries \o Enumerate(d, h, r.entries[Len(r.entries)].offset, room)

\* C34: readdir of a directory d through a live handle of d, from position
\* k, into a reply with room for at least one entry, lists the children of
\* d from position k on in the order of the child list, the child at
\* position p with offset p + 1; and reading on from the offset of the last
\* entry received enumerates every child once.
C34_ReaddirEnumerates ==
    phase = "mounted" =>
        \A h \in DOMAIN open_dirs :
            LET d == open_dirs[h]
                n == Len(ChildList(d))
            IN  IsDirectoryInode(d) =>
                    \A room \in RoomArgs \ {0} :
                        /\ \A k \in 0..n :
                               ReaddirReply(d, h, k, room)
                                   = [op |-> "readdir", kind |-> "entries",
                                      entries |-> [i \in 1..Min(room, n - k) |->
                                                      EntryAt(d, k + i - 1)]]
                        /\ Enumerate(d, h, 0, room)
                               = [i \in 1..n |-> EntryAt(d, i - 1)]

----------------------------------------------------------------------------
(* The tasks of the verifier.                                              *)

\* A task of the depot run to its end on its own.
RECURSIVE RunTask(_, _, _)
RunTask(t, depot, file) ==
    IF t.pc = "done" THEN t ELSE RunTask(TaskStep(t, depot, file).task, depot, file)

\* The tasks of a depot of the SKU, each run on its own.
SoloTasks(depot) ==
    [k \in DOMAIN backup.sku.chunkstores[depot] |->
        RunTask(SpawnTask(backup.sku.chunkstores[depot][k]), depot,
                backup.files[<<depot, backup.sku.chunkstores[depot][k].index>>])]

\* C35: the tasks of a depot exist only between the heading of the depot
\* and its join; while they run the heading of the next depot and the chunk
\* count line of this one are not printed; and the chunk count and the
\* validity after the join are those of the tasks run one by one, whatever
\* the order of their steps was.
C35_TasksJoinedPerDepot ==
    /\ verifier.pc # "join" => tasks = <<>>
    /\ verifier.pc = "join" =>
          /\ Cardinality(Printed({"verifying"})) = verifier.i
          /\ \A j \in Printed({"mismatch"}) : output[j].depot # CurrentDepot
    /\ (verifier.pc \in {"depot", "done"} /\ verifier.i > 1) =>
          LET d == backup.sku.depots[verifier.i - 1]
          IN  /\ verifier.depot_chunks = SumChunks(SoloTasks(d), Len(SoloTasks(d)))
              /\ verifier.valid =
                     \A i \in 1..(verifier.i - 1) :
                         AllCounted(SoloTasks(backup.sku.depots[i]))
              /\ \A j \in Printed({"mismatch"}) :
                     output[j].depot = d =>
                         output[j].depot_chunks = verifier.depot_chunks

\* Two tasks of a depot are both in the middle of their chunkstores, the
\* second ahead of the first.
C35_Witness ==
    /\ verifier.pc = "join"
    /\ Len(tasks) >= 2
    /\ tasks[1].pc = "chunks" /\ tasks[1].next = 2
    /\ tasks[2].pc = "chunks" /\ tasks[2].next = 3
    /\ ~tasks[1].valid

\* The chunk digests that the CSMs of the chunkstores of a depot list.
DigestsOf(depot) ==
    UNION {{f.csm.chunks[i].sha : i \in DOMAIN f.csm.chunks} :
           f \in {backup.files[<<depot, backup.sku.chunkstores[depot][k].index>>] :
                     k \in DOMAIN backup.sku.chunkstores[depot]}}

\* C36: after the join of a depot whose manifest was loaded, the number
\* compared with the manifest's unique_chunks is the number of distinct
\* chunk digests of the chunkstores of the depot, and the line of the chunk
\* counts is printed exactly when the two differ.
C36_DistinctDigestsCompared ==
    (verifier.pc \in {"depot", "done"} /\ verifier.i > 1) =>
        LET d == backup.sku.depots[verifier.i - 1]
            m == LoadManifest(d)
        IN  (m.ok /\ m.some) =>
                /\ verifier.depot_chunks = Cardinality(DigestsOf(d))
                /\ (\E j \in Printed({"mismatch"}) : output[j].depot = d)
                       <=> m.unique_chunks # Cardinality(DigestsOf(d))

----------------------------------------------------------------------------
(* read step by step: the lock of the ChunkStore it fetches a chunk from.  *)
(* A read in flight is a record of the locals of the loop of read: the    *)
(* chunks of the file, the position i in them, the range read, the buffer, *)
(* and the ChunkStore whose lock it holds or is about to take.  BackupFs   *)
(* takes the callbacks one at a time (read has &mut self); the steps of    *)
(* several reads are interleaved here to put the locks to use.             *)

\* RwLock::write returns when no guard of the lock is alive.
MayLock(s) == locks[s] = {}

\* A guard that stays alive after the block it was taken in.
GuardKept(holders, r) == holders

\* The drop of the write guard of read r.
GuardDropped(holders, r) == holders \ {r}

\* The head of read, up to the loop over the chunks of the file.
BeginRead(r, ino, fh, offset_i64, size) ==
    /\ phase = "mounted"
    /\ r \notin DOMAIN readers
    /\ LET offset == AsU64(offset_i64)
           node == GetNode(ino).node
       IN  IF /\ GetNode(ino).some /\ fh \in DOMAIN open_files /\ open_files[fh] = ino
              /\ offset <= NodeSize(node)
              /\ HasMapping(node)
              /\ ToRead(size, NodeSize(node), offset) > 0
           THEN /\ readers' = MapInsert(readers, r,
                      [pc |-> "scan", chunks |-> node.file_mapping.chunks, i |-> 1,
                       offset |-> offset,
                       to_read |-> ToRead(size, NodeSize(node), offset),
                       buf |-> [k \in 1..ToRead(size, NodeSize(node), offset) |-> 0],
                       store |-> 0, fetched |-> <<>>])
                /\ UNCHANGED <<reply, phase>>
           ELSE /\ Replied(ReadOutcome(ino, fh, offset_i64, size).reply)
                /\ UNCHANGED readers
    /\ UNCHANGED <<backup, chunkstores, locks>>
    /\ UNCHANGED fsVars
    /\ UNCHANGED handleVars
    /\ UNCHANGED verifyVars
    /\ UNCHANGED codecVars

\* The ChunkStore the read is to lock for its chunk: 0 when the chunk is
\* passed over, when no store lists it, or when the chunks are through.
Wanted(rd) ==
    IF rd.i > Len(rd.chunks) THEN 0
    ELSE LET chunk == rd.chunks[rd.i]
         IN  IF ~ChunkIsRelevant(rd.offset, rd.offset + rd.to_read, chunk.offset,
                                 chunk.offset + chunk.cb_original)
             THEN 0
             ELSE IF chunk.sha \notin DOMAIN chunks THEN 0
             ELSE chunks[chunk.sha]

\* The loop of read from its head to the write lock of the chunk's store:
\* the reply after the last chunk, the next chunk when this one is passed
\* over, a panic when no store lists the chunk, else the lock, for which
\* the read waits until it is free.
ScanStep(r) ==
    /\ phase = "mounted"
    /\ r \in DOMAIN readers
    /\ readers[r].pc = "scan"
    /\ LET rd == readers[r]
       IN  IF rd.i > Len(rd.chunks)
           THEN /\ Replied([op |-> "read", kind |-> "data", data |-> rd.buf,
                            fetched |-> rd.fetched])
                /\ readers' = MapRemove(readers, r)
                /\ UNCHANGED locks
           ELSE IF ~ChunkIsRelevant(rd.offset, rd.offset + rd.to_read,
                                    rd.chunks[rd.i].offset,
                                    rd.chunks[rd.i].offset + rd.chunks[rd.i].cb_original)
           THEN /\ readers' = [readers EXCEPT ![r].i = @ + 1]
                /\ UNCHANGED <<reply, phase, locks>>
           ELSE IF rd.chunks[rd.i].sha \notin DOMAIN chunks
           THEN /\ Replied([op |-> "read", kind |-> "panic", fetched |-> rd.fetched])
                /\ readers' = MapRemove(readers, r)
                /\ UNCHANGED locks
           ELSE /\ MayLock(Wanted(rd))
                /\ locks' = [locks EXCEPT ![Wanted(rd)] = @ \cup {r}]
                /\ readers' = [readers EXCEPT ![r].pc = "fetch",
                                              ![r].store = Wanted(rd)]
                /\ UNCHANGED <<reply, phase>>
    /\ UNCHANGED <<backup, chunkstores>>
    /\ UNCHANGED fsVars
    /\ UNCHANGED handleVars
    /\ UNCHANGED verifyVars
    /\ UNCHANGED codecVars

\* chunk_data under the lock and the copy into the buffer.  An error
\* returns from read and a panic unwinds it: both drop the guard.
FetchStep(r) ==
    /\ phase = "mounted"
    /\ r \in DOMAIN readers
    /\ readers[r].pc = "fetch"
    /\ LET rd == readers[r]
           chunk == rd.chunks[rd.i]
           res == ChunkData(chunkstores[rd.store], chunk.sha)
           got == Append(rd.fetched, rd.i)
           c == CopyChunk(rd.buf, res.data, rd.offset, chunk.offset)
       IN  /\ chunkstores' = [chunkstores EXCEPT ![rd.store] = res.store]
           /\ IF ~res.ok
              THEN /\ Replied([op |-> "read", kind |-> "error", errno |-> "EIO",
                               fetched |-> got])
                   /\ readers' = MapRemove(readers, r)
                   /\ locks' = [locks EXCEPT ![rd.store] = @ \ {r}]
              ELSE IF ~c.ok
              THEN /\ Replied([op |-> "read", kind |-> "panic", fetched |-> got])
                   /\ readers' = MapRemove(readers, r)
                   /\ locks' = [locks EXCEPT ![rd.store] = @ \ {r}]
              ELSE /\ readers' = [readers EXCEPT ![r].pc = "drop", ![r].buf = c.buf,
                                                 ![r].fetched = got]
                   /\ UNCHANGED <<reply, phase, locks>>
    /\ UNCHANGED backup
    /\ UNCHANGED fsVars
    /\ UNCHANGED handleVars
    /\ UNCHANGED verifyVars
    /\ UNCHANGED codecVars

\* The end of the block of one chunk: the guard goes out of scope.
DropStep(r) ==
    /\ phase = "mounted"
    /\ r \in DOMAIN readers
    /\ readers[r].pc = "drop"
    /\ locks' = [locks EXCEPT ![readers[r].store] = GuardDropped(@, r)]
    /\ readers' = [readers EXCEPT ![r].pc = "scan", ![r].i = @ + 1]
    /\ UNCHANGED <<backup, chunkstores, reply, phase>>
    /\ UNCHANGED fsVars
    /\ UNCHANGED handleVars
    /\ UNCHANGED verifyVars
    /\ UNCHANGED codecVars

\* The reads in flight at a time.
MaxReaders == 2

Readers == 1..MaxReaders

\* Two chunkstores, and two files whose chunks are spread over both in
\* opposite orders.  The second store lists the digests of datas and then
\* the digest of D4 where its CSD holds the archive of other bytes.
LockBackup(datas) ==
    Backup(<<ManifestFile(1, TRUE, 1, FALSE,
                <<[filename |-> A, flags |-> 0, size |-> 4,
                   chunks |-> EndToEnd(<<D1, D2, D3>>, 0)],
                  [filename |-> B, flags |-> 0, size |-> 4,
                   chunks |-> EndToEnd(<<D3, D2, D4>>, 0)]>>)>>,
           <<SoundStore(1, <<D1, D2>>),
             [SoundStore(1, datas) EXCEPT
                 !.index = 2,
                 !.csm.chunks = Append(@, [sha |-> Sha1(D4), offset |-> Len(CsdOf(datas)),
                                           uncompressed_length |-> 1,
                                           compressed_length |-> 3]),
                 !.csd = @ \o Zip(<<9>>)]>>)

\* The second store holds D3 alone, or also a chunk of the first store.
InitLock ==
    \E datas \in {<<D3>>, <<D3, D2>>, <<D1, D3>>} : Unmounted(LockBackup(datas))

NextLock ==
    \/ PrepareFs
    \/ open_files = EmptyMap /\ Open(2)
    \/ DOMAIN open_files = {0} /\ Open(3)
    \/ \E r \in Readers, fh \in DOMAIN open_files, offset \in {0, 1}, size \in {1, 4} :
          BeginRead(r, open_files[fh], fh, offset, size)
    \/ \E r \in Readers : ScanStep(r)
    \/ \E r \in Readers : FetchStep(r)
    \/ \E r \in Readers : DropStep(r)

SpecLock == InitLock /\ [][NextLock]_vars

\* The locks that a read holds.
LocksHeld(r) == {s \in DOMAIN locks : r \in locks[s]}

\* The read can take a step: it is not waiting for a lock that is held.
CanStep(r) ==
    \/ readers[r].pc \in {"fetch", "drop"}
    \/ readers[r].pc = "scan"
          /\ (Wanted(readers[r]) = 0 \/ MayLock(Wanted(readers[r])))

\* C37: a read holds at most one ChunkStore lock, and none between the
\* chunks; the lock of a store is held by at most one read, so no two reads
\* are in chunk_data of one store; and whenever reads are in flight one of
\* them can take a step.
C37_OneLockAtATime ==
    /\ \A s \in DOMAIN locks : Cardinality(locks[s]) <= 1
    /\ \A r \in Readers :
          IF r \in DOMAIN readers
          THEN /\ Cardinality(LocksHeld(r)) <= 1
               /\ readers[r].pc = "scan" => LocksHeld(r) = {}
               /\ readers[r].pc \in {"fetch", "drop"} =>
                      LocksHeld(r) = {readers[r].store}
          ELSE LocksHeld(r) = {}
    /\ \A r \in DOMAIN readers, q \in DOMAIN readers :
          (r # q /\ readers[r].pc = "fetch" /\ readers[q].pc = "fetch") =>
              readers[r].store # readers[q].store
    /\ (phase = "mounted" /\ DOMAIN readers # {}) =>
          \E r \in DOMAIN readers : CanStep(r)

\* A read that has fetched from one store waits for the lock of another,
\* which a second read holds while it is in chunk_data.
C37_Witness ==
    /\ phase = "mounted"
    /\ \E r \in DOMAIN readers, q \in DOMAIN readers :
          /\ readers[r].pc = "scan"
          /\ readers[r].fetched # <<>>
          /\ Wanted(readers[r]) # 0
          /\ Wanted(readers[r]) # readers[r].store
          /\ readers[q].pc = "fetch"
          /\ readers[q].store = Wanted(readers[r])

\* The opened ChunkStores whose CSM lists the digest.
Listing(sha) ==
    {s \in DOMAIN chunkstores :
        \E i \in DOMAIN chunkstores[s].csm.chunks :
            chunkstores[s].csm.chunks[i].sha = sha}

\* C38: after the preparation of the mount the router maps every digest
\* that the CSM of an opened ChunkStore lists to a store whose digest map
\* has the digest, the last opened of the stores that list it, and
\* chunk_data of the digest on that store does not fail with "Unknown
\* chunk".
C38_RouterFindsEveryDigest ==
    phase = "mounted" =>
        \A s \in DOMAIN chunkstores : \A i \in DOMAIN chunkstores[s].csm.chunks :
            LET sha == chunkstores[s].csm.chunks[i].sha
            IN  /\ sha \in DOMAIN chunks
                /\ chunks[sha] \in Listing(sha)
                /\ \A other \in Listing(sha) : other <= chunks[sha]
                /\ sha \in DOMAIN chunkstores[chunks[sha]].chunk_map
                /\ ChunkData(chunkstores[chunks[sha]], sha).err # "UnknownChunk"

\* Mounted with a digest that both stores list, after a read has fetched
\* it from the second.
C38_Witness ==
    /\ phase = "mounted"
    /\ \E r \in DOMAIN readers :
          /\ readers[r].pc = "drop"
          /\ readers[r].store = 2
          /\ Listing(readers[r].chunks[readers[r].i].sha) = {1, 2}

\* C39: the verify command ends with exit code 0 whatever it was given: an
\* error of verify_backup (a SKU that cannot be read, a manifest error, a
\* depot without chunkstores) is printed as the last line, a chunkstore that
\* fails makes the pass invalid, and neither is an error of the command.
C39_VerifyAlwaysExitsZero ==
    /\ verifier.pc = "failed" => output[Len(output)] = [line |-> "failed"]
    /\ "exit" \in DOMAIN verifier => verifier.exit = 0

\* The command has ended after verify_backup returned an error for a SKU
\* that was read.
C39_Witness ==
    /\ "exit" \in DOMAIN verifier
    /\ verifier.pc = "failed"
    /\ backup.sku_ok
====
